---- MODULE Spec2Model ----
(***************************************************************************)
(* The RISC-V SSE (supervisor software event) dispatch core of             *)
(* drivers/firmware/riscv/riscv_sse.c as a state machine.                  *)
(*                                                                         *)
(* The kernel side (the events list, the sse_event objects, their          *)
(* registered-event storage, sse_mutex, the CPU hotplug read lock) is      *)
(* translated from the source.  The SBI firmware is the environment: every *)
(* sbi_ecall takes its answer from an input of the action that issues it,  *)
(* and the firmware-side state of an event changes exactly when the call   *)
(* is answered SBI_SUCCESS.                                                *)
(***************************************************************************)
EXTENDS Integers, Sequences, FiniteSets, TLC

(***************************************************************************)
(* Bounds of the model.                                                    *)
(***************************************************************************)
NCPU == 2
NThreads == 2
MaxRetry == 1
NPerfEvents == 3
MaxCapacity == 2
NScenarioEvents == 5
NCapEvents == 2
ScenarioCapacity == 4

(***************************************************************************)
(* Program constants.                                                      *)
(***************************************************************************)
EPERM == 1
ENOMEM == 12
EEXIST == 17
EINVAL == 22
EIO == 5
EBUSY == 16
EADDRINUSE == 98
ENXIO == 6
ENOTSUPP == 524
SBI_SSE_EVENT_GLOBAL == 32768

CPUs == 0 .. (NCPU - 1)
Threads == 1 .. NThreads
NoThread == 0

\* One local event id (bit 15 clear) and one global event id (bit 15 set).
EvtIds == {0, SBI_SSE_EVENT_GLOBAL}
Handlers == {1, 2}

\* The argument a client registers with its handler.
ArgOf(handler) == handler + 10

sse_event_is_global(evt) == (evt \div SBI_SSE_EVENT_GLOBAL) % 2 = 1

\* The storage instances of an event: one per possible CPU for a local
\* event (event->local), a single one for a global event (event->global).
Instances(evt) == IF sse_event_is_global(evt) THEN {0} ELSE CPUs

\* Platform data: the hart id of a logical CPU, and back.
cpuid_to_hartid_map(cpu) == 2 * cpu + 1
Harts == {cpuid_to_hartid_map(c) : c \in CPUs}
riscv_hartid_to_cpuid(hart) == CHOOSE c \in CPUs : cpuid_to_hartid_map(c) = hart

(***************************************************************************)
(* SBI error codes and their errno.                                        *)
(***************************************************************************)
SBI_SUCCESS == "SBI_SUCCESS"
SBI_ERR_FAILURE == "SBI_ERR_FAILURE"
SBI_ERR_DENIED == "SBI_ERR_DENIED"
SBI_ERR_INVALID_PARAM == "SBI_ERR_INVALID_PARAM"
SBI_ERR_INVALID_STATE == "SBI_ERR_INVALID_STATE"
SBI_ERR_INVALID_ADDRESS == "SBI_ERR_INVALID_ADDRESS"
SBI_ERR_ALREADY_AVAILABLE == "SBI_ERR_ALREADY_AVAILABLE"
SBI_ERR_NOT_SUPPORTED == "SBI_ERR_NOT_SUPPORTED"

sbi_err_map_linux_errno(err) ==
    CASE err = SBI_SUCCESS -> 0
      [] err = SBI_ERR_DENIED -> -EPERM
      [] err = SBI_ERR_INVALID_PARAM -> -EINVAL
      [] OTHER -> -ENOTSUPP


\* Pointers: an error pointer is the (negative) errno, NULL is 0, and the
\* address of the sse_event of an id is some positive number.
NULL == 0
ERR_PTR(err) == err
IS_ERR(ptr) == ptr < 0
EvtPtr(evt) == evt + 1

\* The trigger slot table of a CPU has HW_BP_NUM_MAX entries; the perf
\* events that ask for a trigger; the capacities discovery may have found.
HW_BP_NUM_MAX == 32
EOPNOTSUPP == 95
HW_BREAKPOINT_R == 1
HW_BREAKPOINT_W == 2
HW_BREAKPOINT_RW == 3
HW_BREAKPOINT_X == 4
HW_BREAKPOINT_LEN_1 == 1
HW_BREAKPOINT_LEN_2 == 2
HW_BREAKPOINT_LEN_4 == 4
HW_BREAKPOINT_LEN_8 == 8
RV_DBTR_MC_LOAD_BIT == 0
RV_DBTR_MC_STORE_BIT == 1
RV_DBTR_MC_EXEC_BIT == 2
RV_DBTR_MC_U_BIT == 3
RV_DBTR_MC_S_BIT == 4
RV_DBTR_MC_M_BIT == 6
RV_DBTR_MC_MATCH_BIT == 7
RV_DBTR_MC_CHAIN_BIT == 11
RV_DBTR_MC_ACTION_BIT == 12
RV_DBTR_MC_SIZELO_BIT == 16
RV_DBTR_MC_TIMING_BIT == 18
RV_DBTR_MC_SELECT_BIT == 19
RV_DBTR_MC_SIZEHI_BIT == 21
RV_DBTR_MC_DMODE_BIT == 59
RV_DBTR_MC_TYPE_BIT == 60
RV_DBTR_MC6_LOAD_BIT == 0
RV_DBTR_MC6_STORE_BIT == 1
RV_DBTR_MC6_EXEC_BIT == 2
RV_DBTR_MC6_U_BIT == 3
RV_DBTR_MC6_S_BIT == 4
RV_DBTR_MC6_M_BIT == 6
RV_DBTR_MC6_MATCH_BIT == 7
RV_DBTR_MC6_CHAIN_BIT == 11
RV_DBTR_MC6_ACTION_BIT == 12
RV_DBTR_MC6_SIZE_BIT == 16
RV_DBTR_MC6_TIMING_BIT == 20
RV_DBTR_MC6_SELECT_BIT == 21
RV_DBTR_MC6_VU_BIT == 23
RV_DBTR_MC6_VS_BIT == 24
RV_DBTR_MC6_DMODE_BIT == 59
RV_DBTR_MC6_TYPE_BIT == 60
RV_DBTR_BP == 0
RV_DBTR_WP == 1
NOTIFY_STOP == 32769
RV_DBTR_TRIG_NONE == 0
RV_DBTR_TRIG_MCONTROL == 2
RV_DBTR_TRIG_MCONTROL6 == 6
Slots == 0 .. (HW_BP_NUM_MAX - 1)

\* The table is an array in the per-CPU area: an index of HW_BP_NUM_MAX
\* addresses the word that follows it, which holds NULL or something else.
TableWords == 0 .. HW_BP_NUM_MAX
Garbage == -1
PerfEvents == 1 .. NPerfEvents
Capacities == 1 .. MaxCapacity
ScenarioEvents == 1 .. NScenarioEvents
CapEvents == 1 .. NCapEvents

\* The notifier results and the CPU power-management actions.
NOTIFY_DONE == 0
NOTIFY_OK == 1
CPU_PM_ENTER == 0
CPU_PM_ENTER_FAILED == 1
CPU_PM_EXIT == 2
CPU_CLUSTER_PM_ENTER == 3
PmActions == {CPU_PM_ENTER, CPU_PM_ENTER_FAILED, CPU_PM_EXIT, CPU_CLUSTER_PM_ENTER}

VARIABLES
    online,        \* cpu_online_mask
    events,        \* the events list, head first
    objs,          \* the sse_event objects by id: NoObj or its fields
    mem,           \* the live registered-event storage instances of each id
    fwState,       \* firmware: the state of every event instance
    fwHart,        \* firmware: the preferred hart of every global event
    sse_mutex,     \* the thread holding sse_mutex, or NoThread
    cpus_readers,  \* the threads holding the CPU hotplug read lock
    pc,            \* where each thread is in its API call
    cur,           \* each thread's call in progress: its event, its firmware calls so far
    calls,         \* the firmware calls, in order, of the operation the latest step belongs to
    last,          \* the latest step: the operation, its arguments, what it returned
    clients,       \* the event ids the clients of this system use
    fwFaults,      \* whether this system's firmware may refuse a call it could serve
    sse_hp_state,  \* whether the CPU hotplug callbacks are installed
    stacks,        \* the storage instances of each id whose stacks are allocated
    stackFaults,   \* whether a stack allocation may fail in this system
    dsp,           \* the dispatch path: interrupted-state storage, trap frame, SIP, steps
    pcpu_hw_bp_events,  \* the trigger slot table of every CPU
    dbtr_total_num,     \* the number of triggers found at discovery
    dbtr_type,          \* the trigger type found at discovery
    dbtr_init,          \* whether discovery has run
    fwTrig,             \* firmware: the trigger indices installed on every CPU
    bp_hits,            \* the perf events the latest debug notification delivered, in order
    hw,                 \* the arch_hw_breakpoint the latest parse filled in
    die_args,           \* the latest die notification: its value, the trap's epc and stval
    bp_attr             \* the perf_event_attr of the latest parse

vars == <<online, events, objs, mem, fwState, fwHart, sse_mutex, cpus_readers,
          pc, cur, calls, last, clients, fwFaults, sse_hp_state, stacks, stackFaults,
          dsp, pcpu_hw_bp_events, dbtr_total_num, dbtr_type, dbtr_init, fwTrig,
          bp_hits, hw, die_args, bp_attr>>

\* What a system is: fixed from the initial state on.
world == <<clients, fwFaults, stackFaults>>

\* What the perf core sees of the trigger manager.
perfvars == <<bp_hits, hw, die_args, bp_attr>>

\* What discovery records.
dbtr == <<dbtr_total_num, dbtr_type, dbtr_init>>

\* The state of the event core and the state of the trigger manager.
ssevars == <<online, events, objs, mem, fwState, fwHart, sse_mutex, cpus_readers,
             pc, cur, sse_hp_state, stacks, dsp>>
hwvars == <<pcpu_hw_bp_events, fwTrig>>

\* Answers the environment may give to an event call, and to an attribute
\* write, that the event's state allows.
CallAnswers == IF fwFaults THEN {SBI_SUCCESS, SBI_ERR_FAILURE} ELSE {SBI_SUCCESS}
AttrAnswers ==
    IF fwFaults
    THEN {SBI_SUCCESS, SBI_ERR_INVALID_PARAM, SBI_ERR_DENIED}
    ELSE {SBI_SUCCESS}

NoCur == [evt |-> 0, log |-> <<>>]

NoObj == [alive |-> FALSE, handler |-> 0, handler_arg |-> 0, is_enabled |-> FALSE, cpu |-> 0]

(***************************************************************************)
(* The firmware, as the SBI SSE extension specifies it: an event instance  *)
(* is UNUSED, REGISTERED or ENABLED; a call made in a state that does not  *)
(* allow it is answered SBI_ERR_INVALID_STATE; otherwise the answer is the *)
(* input, and the state changes when the answer is SBI_SUCCESS.            *)
(***************************************************************************)
FwStates == {"UNUSED", "REGISTERED", "ENABLED"}

FwAllowed(func, st) ==
    CASE func = "REGISTER" -> st = "UNUSED"
      [] func = "UNREGISTER" -> st = "REGISTERED"
      [] func = "ENABLE" -> st = "REGISTERED"
      [] func = "DISABLE" -> st = "ENABLED"
      [] func = "ATTR_WRITE" -> st # "ENABLED"
      [] OTHER -> TRUE

FwTarget(func, st) ==
    CASE func = "REGISTER" -> "REGISTERED"
      [] func = "UNREGISTER" -> "UNUSED"
      [] func = "ENABLE" -> "ENABLED"
      [] func = "DISABLE" -> "REGISTERED"
      [] OTHER -> st

FwAnswer(func, st, answer) ==
    IF FwAllowed(func, st) THEN answer ELSE SBI_ERR_INVALID_STATE

FwNext(func, st, answer) ==
    IF FwAnswer(func, st, answer) = SBI_SUCCESS THEN FwTarget(func, st) ELSE st

\* One entry of the call log: the function, the event id, the instance it
\* acts on (the executing CPU for a local event and for mask/unmask), the
\* attribute and value of an attribute call, and the firmware's answer.
Call(func, evt, inst, attr, val, err) ==
    [f |-> func, evt |-> evt, inst |-> inst, attr |-> attr, val |-> val, err |-> err]

\* The firmware context a kernel function works on: the event states, the
\* preferred harts and the call log.
FwCtx(st, hart, log) == [st |-> st, hart |-> hart, log |-> log]

InstOf(evt, cpu) == IF sse_event_is_global(evt) THEN 0 ELSE cpu

\* The instances of evt the online CPUs work on.
OnlineInstancesOf(evt) == IF sse_event_is_global(evt) THEN {0} ELSE online

(***************************************************************************)
(* The SBI wrappers.  `cpu` is the CPU that executes the call, `answer`    *)
(* the firmware's answer to it.  Each returns the new firmware context and *)
(* the function's return value.                                            *)
(***************************************************************************)
sse_sbi_event_func(F, evt, cpu, func, answer) ==
    LET inst == InstOf(evt, cpu)
        a == FwAnswer(func, F.st[evt][inst], answer)
    IN  [fw |-> FwCtx([F.st EXCEPT ![evt][inst] = FwNext(func, @, answer)],
                      F.hart,
                      Append(F.log, Call(func, evt, inst, "", 0, a))),
         ret |-> sbi_err_map_linux_errno(a)]

sse_sbi_disable_event(F, evt, cpu, answer) ==
    sse_sbi_event_func(F, evt, cpu, "DISABLE", answer)

sse_sbi_enable_event(F, evt, cpu, answer) ==
    sse_sbi_event_func(F, evt, cpu, "ENABLE", answer)

sse_sbi_unregister_event(F, evt, cpu, answer) ==
    sse_sbi_event_func(F, evt, cpu, "UNREGISTER", answer)

\* Reads one attribute into attr_buf; *val is attr_buf on success.
sse_event_attr_get_no_lock(F, evt, cpu, attr_id, answer) ==
    LET inst == InstOf(evt, cpu)
    IN  [fw |-> FwCtx(F.st, F.hart,
                      Append(F.log, Call("ATTR_READ", evt, inst, attr_id, 0, answer))),
         ret |-> sbi_err_map_linux_errno(answer),
         val |-> IF attr_id = "PREFERRED_HART" /\ evt \in DOMAIN F.hart
                 THEN F.hart[evt] ELSE 0]

\* Writes one attribute.  SBI_ERR_INVALID_STATE is not reported: the
\* function returns 0 for it, as for SBI_SUCCESS.
sse_event_attr_set_nolock(F, evt, cpu, attr_id, val, answer) ==
    LET inst == InstOf(evt, cpu)
        a == FwAnswer("ATTR_WRITE", F.st[evt][inst], answer)
        hart == IF a = SBI_SUCCESS /\ attr_id = "PREFERRED_HART" /\ evt \in DOMAIN F.hart
                THEN [F.hart EXCEPT ![evt] = val] ELSE F.hart
    IN  [fw |-> FwCtx(F.st, hart,
                      Append(F.log, Call("ATTR_WRITE", evt, inst, attr_id, val, a))),
         ret |-> IF a # SBI_SUCCESS /\ a # SBI_ERR_INVALID_STATE
                 THEN sbi_err_map_linux_errno(a) ELSE 0]

\* ans.prio answers the priority write, ans.call the register call.
sse_sbi_register_event(F, evt, cpu, ans) ==
    LET w == sse_event_attr_set_nolock(F, evt, cpu, "PRIO", 0, ans.prio)
    IN  IF w.ret # 0
        THEN [fw |-> w.fw, ret |-> w.ret]
        ELSE sse_sbi_event_func(w.fw, evt, cpu, "REGISTER", ans.call)

sse_event_register_local(F, evt, cpu, ans) ==
    sse_sbi_register_event(F, evt, cpu, ans)

\* The function on_each_cpu runs on one CPU; `error` is cpu_evt->error after
\* it.  ans: the answers to a registration, or the answer to the one call.
sse_event_per_cpu_func(F, evt, cpu, func, ans, error) ==
    LET r == IF func = "REGISTER"
             THEN sse_event_register_local(F, evt, cpu, ans)
             ELSE sse_sbi_event_func(F, evt, cpu, func, ans)
    IN  [fw |-> r.fw, error |-> IF r.ret # 0 THEN 1 ELSE error]

Min(S) == CHOOSE x \in S : \A y \in S : x <= y

\* on_each_cpu(sse_event_per_cpu_func, &cpu_evt, 1): the function runs on
\* every online CPU and all have finished on return.  The calls of
\* different CPUs act on different event instances, so their order does
\* not matter; they are logged in CPU order.
\* A broadcast that stops at the first CPU on which the function fails.
RECURSIVE on_each_cpu_until_error(_, _, _, _, _, _)
on_each_cpu_until_error(F, evt, func, ans, cpus, error) ==
    IF cpus = {} \/ error # 0
    THEN [fw |-> F, error |-> error]
    ELSE LET c == Min(cpus)
             r == sse_event_per_cpu_func(F, evt, c, func, ans[c], error)
         IN  on_each_cpu_until_error(r.fw, evt, func, ans, cpus \ {c}, r.error)

RECURSIVE on_each_cpu(_, _, _, _, _, _)
on_each_cpu(F, evt, func, ans, cpus, error) ==
    IF cpus = {}
    THEN [fw |-> F, error |-> error]
    ELSE LET c == Min(cpus)
             r == sse_event_per_cpu_func(F, evt, c, func, ans[c], error)
         IN  on_each_cpu(r.fw, evt, func, ans, cpus \ {c}, r.error)


(***************************************************************************)
(* The events list and the sse_event objects.                              *)
(***************************************************************************)
InList(evt) == \E i \in 1 .. Len(events) : events[i] = evt

\* A lookup that never finds an event.
sse_event_get_none(evt) == NULL

\* The event of the list with this id, or NULL.
sse_event_get(evt) == IF InList(evt) THEN EvtPtr(evt) ELSE NULL

list_add(evt, list) == <<evt>> \o list

\* A removal that removes nothing.
list_del_none(evt, list) == list

list_del(evt, list) == SelectSeq(list, LAMBDA e : e # evt)

Fw == FwCtx(fwState, fwHart, <<>>)

Returned(op, evt, arg, ret) == [op |-> op, evt |-> evt, arg |-> arg, ret |-> ret]

\* The firmware state and the call log after an operation.
Commit(F) ==
    /\ fwState' = F.st
    /\ fwHart' = F.hart
    /\ calls' = F.log

GlobalIds == {e \in EvtIds : sse_event_is_global(e)}

\* The answers to one registration: to the priority write and to the
\* register call (not made when the priority write failed).
RegAnswers ==
    {a \in [prio : CallAnswers, call : CallAnswers] :
        a.prio = SBI_SUCCESS \/ a.call = SBI_SUCCESS}

(***************************************************************************)
(* sse_event_register, up to cpus_read_unlock(): the duplicate check, the  *)
(* allocation, and the firmware registration.  Every failure returns here. *)
(***************************************************************************)
\* A failing return: through err_event_free (the event and its storage are
\* freed again) or straight to out_unlock; ERR_PTR(ret) is returned.
RegisterFails(t, evt, handler, F, ret) ==
    /\ Commit(F)
    /\ last' = Returned("register", evt, handler, ERR_PTR(ret))
    /\ UNCHANGED <<objs, mem, stacks, sse_mutex, pc, cur>>

\* The firmware registration succeeded: the event and its storage stay
\* allocated, and the thread goes on to list_add() with sse_mutex held.
RegisterGoesOn(t, evt, handler, F, cpu) ==
    /\ Commit(F)
    /\ objs' = [objs EXCEPT ![evt] =
                   [alive |-> TRUE, handler |-> handler, handler_arg |-> ArgOf(handler),
                    is_enabled |-> FALSE, cpu |-> cpu]]
    /\ mem' = [mem EXCEPT ![evt] = Instances(evt)]
    /\ sse_mutex' = t
    /\ pc' = [pc EXCEPT ![t] = "reg_add"]
    /\ cur' = [cur EXCEPT ![t] = [evt |-> evt, log |-> F.log]]
    /\ last' = Returned("register_fw", evt, handler, 0)

\* The global branch.  rd answers the preferred-hart read, reg the registration.
RegisterGlobal(t, evt, handler, rd, reg) ==
    LET g == sse_event_attr_get_no_lock(Fw, evt, 0, "PREFERRED_HART", rd)
        r == sse_sbi_register_event(g.fw, evt, 0, reg)
    IN  IF g.ret # 0
        THEN RegisterFails(t, evt, handler, g.fw, g.ret)
        ELSE IF r.ret # 0
        THEN RegisterFails(t, evt, handler, r.fw, r.ret)
        ELSE RegisterGoesOn(t, evt, handler, r.fw, riscv_hartid_to_cpuid(g.val))

\* The answers to a broadcast of func for evt from firmware context F: one
\* for each online CPU whose call the firmware could serve.
BcastAnswers(F, evt, func) ==
    {a \in [online -> CallAnswers] :
        \A c \in online : ~FwAllowed(func, F.st[evt][c]) => a[c] = SBI_SUCCESS}

\* A local branch that leaves out the unregister broadcast of the rollback.
RegisterLocalNoRollback(t, evt, handler, reg) ==
    LET l == on_each_cpu(Fw, evt, "REGISTER", reg, online, 0)
    IN  IF l.error # 0
        THEN RegisterFails(t, evt, handler, l.fw, 0)
        ELSE RegisterGoesOn(t, evt, handler, l.fw, 0)

\* The local branch.  reg[c] answers the registration on CPU c, unr[c] the
\* unregister call of the rollback on CPU c.  ret is still 0 at err_event_free,
\* so that ERR_PTR(0), which is NULL, is returned.
RegisterLocal(t, evt, handler, reg) ==
    LET l == on_each_cpu(Fw, evt, "REGISTER", reg, online, 0)
    IN  IF l.error # 0
        THEN \E unr \in BcastAnswers(l.fw, evt, "UNREGISTER") :
                RegisterFails(t, evt, handler,
                              on_each_cpu(l.fw, evt, "UNREGISTER", unr, online, l.error).fw, 0)
        ELSE RegisterGoesOn(t, evt, handler, l.fw, 0)

(***************************************************************************)
(* The allocation.  ok tells whether the stack allocations for one storage *)
(* instance succeed.                                                       *)
(***************************************************************************)
sse_init_event(ok) == IF ok THEN 0 ELSE -ENOMEM

\* The result of sse_init_event is not looked at.
sse_event_init_registered(ok) == 0

\* The first error of the initialisations, in instance order, or 0.
RECURSIVE FirstError(_, _)
FirstError(oks, insts) ==
    IF insts = {}
    THEN 0
    ELSE LET c == Min(insts)
             err == sse_event_init_registered(oks[c])
         IN  IF err # 0 THEN err ELSE FirstError(oks, insts \ {c})

\* sse_event_alloc_global and sse_event_alloc_local: memok tells whether
\* the storage itself is allocated, oks[i] whether the stacks of instance
\* i are.  Returns the error and the instances that keep a stack.
sse_event_alloc_reg_evt(evt, memok, oks) ==
    IF ~memok
    THEN [err |-> -ENOMEM, stacks |-> {}]
    ELSE LET err == FirstError(oks, Instances(evt))
         IN  [err |-> err,
              stacks |-> IF err # 0 THEN {} ELSE {i \in Instances(evt) : oks[i]}]

\* sse_event_alloc: the event pointer or the error pointer, and the
\* instances that have a stack.
sse_event_alloc(evt, memok, oks) ==
    LET a == sse_event_alloc_reg_evt(evt, memok, oks)
    IN  [ptr |-> IF a.err # 0 THEN ERR_PTR(a.err) ELSE EvtPtr(evt), stacks |-> a.stacks]

\* The outcomes of the stack allocations for the instances of evt.
StackAnswers(evt) ==
    IF stackFaults THEN [Instances(evt) -> BOOLEAN] ELSE [Instances(evt) -> {TRUE}]

\* memok: whether the allocations of the event and of its storage succeed.
sse_event_register(t, evt, handler) ==
    /\ UNCHANGED <<world, dbtr, perfvars, sse_hp_state, dsp, hwvars>>
    /\ pc[t] = "idle"
    /\ sse_mutex = NoThread
    /\ UNCHANGED <<online, events, cpus_readers>>
    /\ IF sse_event_get(evt) # NULL
       THEN RegisterFails(t, evt, handler, Fw, -EEXIST)
       ELSE \E memok \in BOOLEAN :
            \E oks \in IF memok THEN StackAnswers(evt) ELSE [Instances(evt) -> {TRUE}] :
            LET a == sse_event_alloc(evt, memok, oks)
            IN  IF IS_ERR(a.ptr)
                THEN RegisterFails(t, evt, handler, Fw, a.ptr)
                ELSE /\ IF sse_event_is_global(evt)
                        THEN \E rd \in CallAnswers, reg \in RegAnswers :
                                RegisterGlobal(t, evt, handler, rd, reg)
                        ELSE \E reg \in [online -> RegAnswers] :
                                RegisterLocal(t, evt, handler, reg)
                     /\ IF pc'[t] = "reg_add"
                        THEN stacks' = [stacks EXCEPT ![evt] = a.stacks]
                        ELSE TRUE

\* sse_event_register from list_add() on: the event enters the list.
sse_event_register_add(t) ==
    /\ UNCHANGED <<world, dbtr, perfvars, sse_hp_state, dsp, hwvars>>
    /\ pc[t] = "reg_add"
    /\ events' = list_add(cur[t].evt, events)
    /\ sse_mutex' = NoThread
    /\ pc' = [pc EXCEPT ![t] = "idle"]
    /\ calls' = cur[t].log
    /\ cur' = [cur EXCEPT ![t] = NoCur]
    /\ last' = Returned("register", cur[t].evt, objs[cur[t].evt].handler, EvtPtr(cur[t].evt))
    /\ UNCHANGED <<online, objs, mem, stacks, fwState, fwHart, cpus_readers>>

\* A handle a client may pass: an event that sse_event_register returned.
ValidHandle(evt) == objs[evt].alive /\ InList(evt)

\* unr[c]: the answer to the unregister call on CPU c (of a global event: unr[0]).
sse_event_unregister_nolock(F, evt, unr) ==
    IF sse_event_is_global(evt)
    THEN sse_sbi_unregister_event(F, evt, 0, unr[0]).fw
    ELSE on_each_cpu(F, evt, "UNREGISTER", unr, online, 0).fw

\* The answers to the calls of func an operation on evt makes: one for a
\* global event, one for each online CPU for a local event.
OpAnswers(evt, func) ==
    IF sse_event_is_global(evt)
    THEN [{0} -> IF FwAllowed(func, fwState[evt][0]) THEN CallAnswers ELSE {SBI_SUCCESS}]
    ELSE BcastAnswers(Fw, evt, func)

\* sse_event_unregister, up to cpus_read_unlock().
sse_event_unregister(t, evt) ==
    /\ UNCHANGED <<world, dbtr, perfvars, sse_hp_state, dsp, hwvars>>
    /\ pc[t] = "idle"
    /\ sse_mutex = NoThread
    /\ ValidHandle(evt)
    /\ \E unr \in OpAnswers(evt, "UNREGISTER") :
          LET F == sse_event_unregister_nolock(Fw, evt, unr)
          IN  /\ Commit(F)
              /\ cur' = [cur EXCEPT ![t] = [evt |-> evt, log |-> F.log]]
    /\ sse_mutex' = t
    /\ pc' = [pc EXCEPT ![t] = "unreg_del"]
    /\ last' = Returned("unregister_fw", evt, 0, 0)
    /\ UNCHANGED <<online, events, objs, mem, stacks, cpus_readers>>

\* sse_event_free: every storage instance and the event itself.
sse_event_free(evt) ==
    /\ mem' = [mem EXCEPT ![evt] = {}]
    /\ stacks' = [stacks EXCEPT ![evt] = {}]
    /\ objs' = [objs EXCEPT ![evt] = NoObj]

\* sse_event_unregister from list_del() on.
sse_event_unregister_del(t) ==
    /\ UNCHANGED <<world, dbtr, perfvars, sse_hp_state, dsp, hwvars>>
    /\ pc[t] = "unreg_del"
    /\ events' = list_del(cur[t].evt, events)
    /\ sse_event_free(cur[t].evt)
    /\ sse_mutex' = NoThread
    /\ pc' = [pc EXCEPT ![t] = "idle"]
    /\ calls' = cur[t].log
    /\ cur' = [cur EXCEPT ![t] = NoCur]
    /\ last' = Returned("unregister", cur[t].evt, 0, 0)
    /\ UNCHANGED <<online, fwState, fwHart, cpus_readers>>

(***************************************************************************)
(* sse_event_enable.  en: the answers to the enable calls; dis: the        *)
(* answers to the disable calls of the rollback.                           *)
(***************************************************************************)
EnableGlobal(t, evt, en) ==
    LET g == sse_sbi_enable_event(Fw, evt, 0, en)
    IN  /\ Commit(g.fw)
        /\ objs' = IF g.ret # 0 THEN objs ELSE [objs EXCEPT ![evt].is_enabled = TRUE]
        /\ last' = Returned("enable", evt, 0, g.ret)

\* A local branch that leaves out the disable broadcast of the rollback.
EnableLocalNoRollback(t, evt, en) ==
    LET l == on_each_cpu(Fw, evt, "ENABLE", en, online, 0)
    IN  /\ Commit(l.fw)
        /\ objs' = IF l.error # 0 THEN objs ELSE [objs EXCEPT ![evt].is_enabled = TRUE]
        /\ last' = Returned("enable", evt, 0, 0)

\* ret is still 0 when the rollback goes to out.
EnableLocal(t, evt, en) ==
    LET l == on_each_cpu(Fw, evt, "ENABLE", en, online, 0)
    IN  /\ IF l.error # 0
           THEN /\ \E dis \in BcastAnswers(l.fw, evt, "DISABLE") :
                      Commit(on_each_cpu(l.fw, evt, "DISABLE", dis, online, l.error).fw)
                /\ objs' = objs
           ELSE /\ Commit(l.fw)
                /\ objs' = [objs EXCEPT ![evt].is_enabled = TRUE]
        /\ last' = Returned("enable", evt, 0, 0)

sse_event_enable(t, evt) ==
    /\ UNCHANGED <<world, dbtr, perfvars, sse_hp_state, dsp, hwvars>>
    /\ pc[t] = "idle"
    /\ sse_mutex = NoThread
    /\ ValidHandle(evt)
    /\ IF sse_event_is_global(evt)
       THEN \E en \in OpAnswers(evt, "ENABLE") : EnableGlobal(t, evt, en[0])
       ELSE \E en \in OpAnswers(evt, "ENABLE") : EnableLocal(t, evt, en)
    /\ UNCHANGED <<online, events, mem, stacks, sse_mutex, cpus_readers, pc, cur>>

\* A disable that makes no firmware call.
sse_event_disable_nolock_none(F, evt, dis) == F

sse_event_disable_nolock(F, evt, dis) ==
    IF sse_event_is_global(evt)
    THEN sse_sbi_disable_event(F, evt, 0, dis[0]).fw
    ELSE on_each_cpu(F, evt, "DISABLE", dis, online, 0).fw

\* A disable that does not take sse_mutex.
sse_event_disable_unlocked(t, evt) ==
    /\ UNCHANGED <<world, dbtr, perfvars, sse_hp_state, dsp, hwvars>>
    /\ pc[t] = "idle"
    /\ ValidHandle(evt)
    /\ \E dis \in OpAnswers(evt, "DISABLE") :
          Commit(sse_event_disable_nolock(Fw, evt, dis))
    /\ objs' = [objs EXCEPT ![evt].is_enabled = FALSE]
    /\ last' = Returned("disable", evt, 0, 0)
    /\ UNCHANGED <<online, events, mem, stacks, sse_mutex, cpus_readers, pc, cur>>

sse_event_disable(t, evt) ==
    /\ UNCHANGED <<world, dbtr, perfvars, sse_hp_state, dsp, hwvars>>
    /\ pc[t] = "idle"
    /\ sse_mutex = NoThread
    /\ ValidHandle(evt)
    /\ \E dis \in OpAnswers(evt, "DISABLE") :
          Commit(sse_event_disable_nolock(Fw, evt, dis))
    /\ objs' = [objs EXCEPT ![evt].is_enabled = FALSE]
    /\ last' = Returned("disable", evt, 0, 0)
    /\ UNCHANGED <<online, events, mem, stacks, sse_mutex, cpus_readers, pc, cur>>

(***************************************************************************)
(* The do ... while (ret == -EINVAL) loop of                               *)
(* sse_event_set_target_cpu_nolock: wr[i] answers the i-th write.  done is *)
(* FALSE when the loop is still running after the last answer of wr.       *)
(***************************************************************************)
RECURSIVE PreferredHartLoop(_, _, _, _, _)
PreferredHartLoop(F, evt, hart_id, wr, i) ==
    LET w == sse_event_attr_set_nolock(F, evt, 0, "PREFERRED_HART", hart_id, wr[i])
    IN  IF w.ret = -EINVAL
        THEN IF i < Len(wr)
             THEN PreferredHartLoop(w.fw, evt, hart_id, wr, i + 1)
             ELSE [fw |-> w.fw, ret |-> w.ret, done |-> FALSE]
        ELSE [fw |-> w.fw, ret |-> w.ret, done |-> TRUE]

\* The answers to the writes of one loop: SBI_ERR_INVALID_PARAM up to
\* MaxRetry times, then an answer that ends the loop.
WriteAnswers ==
    {wr \in UNION {[1 .. n -> AttrAnswers] : n \in 1 .. (MaxRetry + 1)} :
        /\ \A i \in 1 .. (Len(wr) - 1) : wr[i] = SBI_ERR_INVALID_PARAM
        /\ wr[Len(wr)] # SBI_ERR_INVALID_PARAM}

\* A target change that writes the preferred hart without the disable and
\* the enable call around the write.
sse_event_set_target_cpu_nolock_live(F, evt, cpu, in) ==
    IF ~sse_event_is_global(evt)
    THEN [fw |-> F, cpu |-> objs[evt].cpu, ret |-> -EINVAL, done |-> TRUE]
    ELSE LET w == PreferredHartLoop(F, evt, cpuid_to_hartid_map(cpu), in.wr, 1)
         IN  [fw |-> w.fw,
              cpu |-> IF w.ret = 0 THEN cpu ELSE objs[evt].cpu,
              ret |-> 0,
              done |-> w.done]

\* A target change that makes no firmware call and records nothing.
sse_event_set_target_cpu_nolock_none(F, evt, cpu, in) ==
    [fw |-> F, cpu |-> objs[evt].cpu, ret |-> 0, done |-> TRUE]

\* in.da, in.wr, in.ea: the answers to the disable call, to the writes and
\* to the enable call.  Returns the firmware context, the event's recorded
\* cpu and the return value.
sse_event_set_target_cpu_nolock(F, evt, cpu, in) ==
    IF ~sse_event_is_global(evt)
    THEN [fw |-> F, cpu |-> objs[evt].cpu, ret |-> -EINVAL, done |-> TRUE]
    ELSE LET was_enabled == objs[evt].is_enabled
             d == IF was_enabled THEN sse_sbi_disable_event(F, evt, 0, in.da).fw ELSE F
             w == PreferredHartLoop(d, evt, cpuid_to_hartid_map(cpu), in.wr, 1)
             e == IF was_enabled THEN sse_sbi_enable_event(w.fw, evt, 0, in.ea).fw ELSE w.fw
         IN  [fw |-> e,
              cpu |-> IF w.ret = 0 THEN cpu ELSE objs[evt].cpu,
              ret |-> 0,
              done |-> w.done]

\* The answers a target change of evt needs: one for every call the
\* function makes that the firmware could serve.
TargetAnswers(evt) ==
    IF sse_event_is_global(evt)
    THEN LET st == fwState[evt][0]
             en == objs[evt].is_enabled
         IN  {in \in [da : CallAnswers, wr : WriteAnswers, ea : CallAnswers] :
                LET mid == IF en THEN FwNext("DISABLE", st, in.da) ELSE st
                IN  /\ ~(en /\ FwAllowed("DISABLE", st)) => in.da = SBI_SUCCESS
                    /\ ~FwAllowed("ATTR_WRITE", mid) => in.wr = <<SBI_SUCCESS>>
                    /\ ~(en /\ FwAllowed("ENABLE", mid)) => in.ea = SBI_SUCCESS}
    ELSE [da : {SBI_SUCCESS}, wr : {<<SBI_SUCCESS>>}, ea : {SBI_SUCCESS}]

\* A return for a CPU that is not online that records the CPU all the same.
SetTargetCpuOfflineRecorded(t, evt, cpu) ==
    /\ sse_mutex' = t
    /\ cpus_readers' = cpus_readers \cup {t}
    /\ calls' = <<>>
    /\ last' = Returned("set_target_cpu", evt, cpu, -EINVAL)
    /\ objs' = [objs EXCEPT ![evt].cpu = cpu]
    /\ UNCHANGED <<fwState, fwHart>>

\* The return for a CPU that is not online: sse_mutex and the hotplug read
\* lock stay held.
SetTargetCpuOffline(t, evt, cpu) ==
    /\ sse_mutex' = t
    /\ cpus_readers' = cpus_readers \cup {t}
    /\ calls' = <<>>
    /\ last' = Returned("set_target_cpu", evt, cpu, -EINVAL)
    /\ UNCHANGED <<objs, fwState, fwHart>>

SetTargetCpuOnline(t, evt, cpu, in) ==
    LET r == sse_event_set_target_cpu_nolock(Fw, evt, cpu, in)
    IN  /\ r.done
        /\ Commit(r.fw)
        /\ objs' = [objs EXCEPT ![evt].cpu = r.cpu]
        /\ last' = Returned("set_target_cpu", evt, cpu, r.ret)
        /\ UNCHANGED <<sse_mutex, cpus_readers>>

sse_event_set_target_cpu(t, evt, cpu) ==
    /\ UNCHANGED <<world, dbtr, perfvars, sse_hp_state, dsp, hwvars>>
    /\ pc[t] = "idle"
    /\ sse_mutex = NoThread
    /\ ValidHandle(evt)
    /\ UNCHANGED <<online, events, mem, stacks, pc, cur>>
    /\ IF cpu \notin online
       THEN SetTargetCpuOffline(t, evt, cpu)
       ELSE \E in \in TargetAnswers(evt) : SetTargetCpuOnline(t, evt, cpu, in)


\* A mask that makes no firmware call.
sse_events_mask_none(F, cpu) == F

sse_events_mask(F, cpu) ==
    FwCtx(F.st, F.hart, Append(F.log, Call("HART_MASK", 0, cpu, "", 0, SBI_SUCCESS)))

sse_events_unmask(F, cpu) ==
    FwCtx(F.st, F.hart, Append(F.log, Call("HART_UNMASK", 0, cpu, "", 0, SBI_SUCCESS)))

\* Whether the list holds an event of a kind that satisfies P.
AnyEvent(P(_)) == \E i \in 1 .. Len(events) : P(events[i])

IsLocal(evt) == ~sse_event_is_global(evt)
IsEnabledLocal(evt) == IsLocal(evt) /\ objs[evt].is_enabled

(***************************************************************************)
(* sse_cpu_online, on the CPU that came online: the walk of the events     *)
(* list, then the unmask.  in.reg, in.en: the answers to the registration  *)
(* and to the enable call of a local event.                                *)
(***************************************************************************)
\* A walk that skips every event.
OnlineWalkNone(F, i, cpu, in) == F

\* A walk that registers the local events and enables none.
RECURSIVE OnlineWalkRegisters(_, _, _, _)
OnlineWalkRegisters(F, i, cpu, in) ==
    IF i > Len(events)
    THEN F
    ELSE LET evt == events[i]
             r == sse_event_register_local(F, evt, cpu, in.reg).fw
         IN  IF sse_event_is_global(evt)
             THEN OnlineWalkRegisters(F, i + 1, cpu, in)
             ELSE OnlineWalkRegisters(r, i + 1, cpu, in)

RECURSIVE OnlineWalk(_, _, _, _)
OnlineWalk(F, i, cpu, in) ==
    IF i > Len(events)
    THEN F
    ELSE LET evt == events[i]
             r == sse_event_register_local(F, evt, cpu, in.reg).fw
             e == IF objs[evt].is_enabled
                  THEN sse_sbi_enable_event(r, evt, cpu, in.en).fw
                  ELSE r
         IN  IF sse_event_is_global(evt)
             THEN OnlineWalk(F, i + 1, cpu, in)
             ELSE OnlineWalk(e, i + 1, cpu, in)

OnlineAnswers ==
    [reg : IF AnyEvent(IsLocal) THEN RegAnswers
           ELSE {[prio |-> SBI_SUCCESS, call |-> SBI_SUCCESS]},
     en : IF AnyEvent(IsEnabledLocal) THEN CallAnswers ELSE {SBI_SUCCESS}]

\* The hotplug callbacks run with the hotplug lock held for writing: no
\* thread is inside a cpus_read_lock() section.
sse_cpu_online(cpu) ==
    /\ UNCHANGED <<world, dbtr, perfvars, sse_hp_state, dsp, hwvars>>
    /\ sse_hp_state
    /\ cpu \notin online
    /\ cpus_readers = {}
    /\ online' = online \cup {cpu}
    /\ \E in \in OnlineAnswers :
          Commit(sse_events_unmask(OnlineWalk(Fw, 1, cpu, in), cpu))
    /\ last' = Returned("cpu_online", 0, cpu, 0)
    /\ UNCHANGED <<events, objs, mem, stacks, sse_mutex, cpus_readers, pc, cur>>

(***************************************************************************)
(* sse_cpu_teardown, on the CPU that goes offline (still in                *)
(* cpu_online_mask): the mask, then the walk of the events list.  next_cpu *)
(* is the CPU cpumask_any_but() gives.  W carries the firmware context,    *)
(* the recorded cpu of every event, and whether every loop has ended.      *)
(* in.dis, in.unr answer the calls for a local event; in.tgt the calls of  *)
(* the target change of a global event.                                    *)
(***************************************************************************)
\* A walk that skips every event.
TeardownWalkNone(W, i, cpu, next_cpu, in) == W

RECURSIVE TeardownWalk(_, _, _, _, _)
TeardownWalk(W, i, cpu, next_cpu, in) ==
    IF i > Len(events)
    THEN W
    ELSE LET evt == events[i]
             d == IF objs[evt].is_enabled
                  THEN sse_sbi_disable_event(W.fw, evt, cpu, in.dis).fw
                  ELSE W.fw
             u == sse_sbi_unregister_event(d, evt, cpu, in.unr).fw
             m == sse_event_set_target_cpu_nolock(W.fw, evt, next_cpu, in.tgt)
         IN  IF ~sse_event_is_global(evt)
             THEN TeardownWalk([W EXCEPT !.fw = u], i + 1, cpu, next_cpu, in)
             ELSE IF objs[evt].cpu # cpu
             THEN TeardownWalk(W, i + 1, cpu, next_cpu, in)
             ELSE TeardownWalk([fw |-> m.fw,
                                cpuOf |-> [W.cpuOf EXCEPT ![evt] = m.cpu],
                                done |-> W.done /\ m.done],
                               i + 1, cpu, next_cpu, in)

TeardownAnswers(cpu) ==
    [dis : IF AnyEvent(IsEnabledLocal) THEN CallAnswers ELSE {SBI_SUCCESS},
     unr : IF AnyEvent(IsLocal) THEN CallAnswers ELSE {SBI_SUCCESS},
     tgt : IF \E e \in GlobalIds : InList(e) /\ objs[e].cpu = cpu
           THEN UNION {TargetAnswers(e) : e \in {g \in GlobalIds : InList(g) /\ objs[g].cpu = cpu}}
           ELSE {[da |-> SBI_SUCCESS, wr |-> <<SBI_SUCCESS>>, ea |-> SBI_SUCCESS]}]

sse_cpu_teardown(cpu, next_cpu) ==
    /\ UNCHANGED <<world, dbtr, perfvars, sse_hp_state, dsp, hwvars>>
    /\ sse_hp_state
    /\ cpu \in online
    /\ next_cpu \in online \ {cpu}
    /\ cpus_readers = {}
    /\ online' = online \ {cpu}
    /\ \E in \in TeardownAnswers(cpu) :
          LET W == TeardownWalk([fw |-> sse_events_mask(Fw, cpu),
                                 cpuOf |-> [e \in EvtIds |-> objs[e].cpu],
                                 done |-> TRUE],
                                1, cpu, next_cpu, in)
          IN  /\ W.done
              /\ Commit(W.fw)
              /\ objs' = [e \in EvtIds |-> [objs[e] EXCEPT !.cpu = W.cpuOf[e]]]
    /\ last' = Returned("cpu_teardown", 0, cpu, 0)
    /\ UNCHANGED <<events, mem, stacks, sse_mutex, cpus_readers, pc, cur>>

(***************************************************************************)
(* sse_reset: for every event of the list, in list order, the disable and  *)
(* the unregister of the event, results ignored.  in.dis, in.unr: the      *)
(* answers to the calls for the event.                                     *)
(***************************************************************************)
\* A reset that skips every event.
ResetWalkNone(F, i, in) == F

RECURSIVE ResetWalk(_, _, _)
ResetWalk(F, i, in) ==
    IF i > Len(events)
    THEN F
    ELSE LET evt == events[i]
             d == sse_event_disable_nolock(F, evt, in.dis)
             u == sse_event_unregister_nolock(d, evt, in.unr)
         IN  ResetWalk(u, i + 1, in)

sse_reset(F, in) == ResetWalk(F, 1, in)

\* The answers a reset needs: for each instance the online CPUs work on,
\* one to the disable call and one to the unregister call, where the
\* firmware could serve the call.  The list holds one event at most, since
\* the clients use one id.
ResetAnswers ==
    IF events = <<>>
    THEN {[dis |-> [c \in {0} |-> SBI_SUCCESS], unr |-> [c \in {0} |-> SBI_SUCCESS]]}
    ELSE LET evt == events[1]
             I == OnlineInstancesOf(evt)
         IN  {in \in [dis : [I -> CallAnswers], unr : [I -> CallAnswers]] :
                \A c \in I :
                    LET mid == FwNext("DISABLE", fwState[evt][c], in.dis[c])
                    IN  /\ ~FwAllowed("DISABLE", fwState[evt][c]) => in.dis[c] = SBI_SUCCESS
                        /\ ~FwAllowed("UNREGISTER", mid) => in.unr[c] = SBI_SUCCESS}

\* sse_reboot_notifier: the hotplug callbacks are removed, then sse_reset.
sse_reboot_notifier ==
    /\ UNCHANGED <<world, dbtr, perfvars, dsp, hwvars>>
    /\ sse_hp_state
    /\ sse_hp_state' = FALSE
    /\ \E in \in ResetAnswers : Commit(sse_reset(Fw, in))
    /\ last' = Returned("reboot", 0, 0, NOTIFY_OK)
    /\ UNCHANGED <<online, events, objs, mem, stacks, sse_mutex, cpus_readers, pc, cur>>

\* A notifier that makes no firmware call for any action.
sse_pm_notifier_none(cpu, action) ==
    /\ UNCHANGED <<world, dbtr, perfvars, sse_hp_state, dsp, hwvars>>
    /\ cpu \in online
    /\ calls' = <<>>
    /\ last' = Returned("pm", 0, action, NOTIFY_DONE)
    /\ UNCHANGED <<online, events, objs, mem, stacks, fwState, fwHart, sse_mutex, cpus_readers, pc, cur>>

\* sse_pm_notifier on cpu: the mask on entry, the unmask on exit and on a
\* failed entry, nothing for another action.
sse_pm_notifier(cpu, action) ==
    /\ UNCHANGED <<world, dbtr, perfvars, sse_hp_state, dsp, hwvars>>
    /\ cpu \in online
    /\ CASE action = CPU_PM_ENTER ->
              /\ Commit(sse_events_mask(Fw, cpu))
              /\ last' = Returned("pm", 0, action, NOTIFY_OK)
         [] action \in {CPU_PM_EXIT, CPU_PM_ENTER_FAILED} ->
              /\ Commit(sse_events_unmask(Fw, cpu))
              /\ last' = Returned("pm", 0, action, NOTIFY_OK)
         [] OTHER ->
              /\ calls' = <<>>
              /\ last' = Returned("pm", 0, action, NOTIFY_DONE)
              /\ UNCHANGED <<fwState, fwHart>>
    /\ UNCHANGED <<online, events, objs, mem, stacks, sse_mutex, cpus_readers, pc, cur>>

(***************************************************************************)
(* The dispatch path.  The firmware delivers an enabled event on a hart:   *)
(* for a global event the preferred hart.  The entry code has saved the    *)
(* interrupted registers in the trap frame, except a6 and a7, which the    *)
(* firmware holds.  D carries the interrupted-state storage of every       *)
(* instance, the a6/a7 of the trap frame, the software-interrupt pending   *)
(* bit and the steps taken, in order.                                      *)
(***************************************************************************)
\* The a6/a7 pairs the firmware may hold, and the pair of a trap frame and
\* of a storage that was never written.
RegPairs == {<<1, 2>>}
NoRegs == <<0, 0>>

\* What a handler may return.
HandlerReturns == {0, -EINVAL}

NoDispatch ==
    [interrupted |-> [e \in EvtIds |-> [i \in Instances(e) |-> NoRegs]],
     regs |-> NoRegs,
     sip |-> FALSE,
     steps |-> <<>>]

\* The SBI_SSE_EVENT_ATTR_READ call of do_sse: the firmware writes the
\* interrupted a6 and a7 to the storage, if it serves the call.
ReadInterrupted(D, evt, inst, rd, held) ==
    [D EXCEPT !.interrupted[evt][inst] = IF rd = SBI_SUCCESS THEN held ELSE @,
              !.steps = Append(@, [s |-> "read", evt |-> evt, inst |-> inst, err |-> rd])]

\* memcpy(&regs->a6, &reg_evt->interrupted, ...).
MergeInterrupted(D, evt, inst) ==
    [D EXCEPT !.regs = D.interrupted[evt][inst],
              !.steps = Append(@, [s |-> "merge", evt |-> evt, inst |-> inst])]

\* sse_handle_event: the handler of the event is called; what it returns
\* is only logged.
sse_handle_event(D, evt, hret) ==
    [D EXCEPT !.steps = Append(@, [s |-> "handler", h |-> objs[evt].handler, evt |-> evt,
                                   arg |-> objs[evt].handler_arg, regs |-> D.regs,
                                   ret |-> hret])]

\* csr_set(CSR_IP, IE_SIE).
SetSoftIrqPending(D) ==
    [D EXCEPT !.sip = TRUE, !.steps = Append(@, [s |-> "sip"])]

\* A dispatch that sets the pending bit only after a handler that returned 0.
DispatchStepsChecked(D, evt, inst, rd, held, hret) ==
    LET h == sse_handle_event(MergeInterrupted(ReadInterrupted(D, evt, inst, rd, held),
                                               evt, inst), evt, hret)
    IN  IF hret = 0 THEN SetSoftIrqPending(h) ELSE h

DispatchSteps(D, evt, inst, rd, held, hret) ==
    SetSoftIrqPending(
        sse_handle_event(
            MergeInterrupted(ReadInterrupted(D, evt, inst, rd, held), evt, inst),
            evt, hret))

\* do_sse on cpu for an event whose object and storage are live.  The trap
\* frame is the one of this entry, the pending bit the one left by the
\* previous return to the interrupted context, which has taken the
\* software interrupt.
do_sse(evt, cpu) ==
    /\ UNCHANGED <<world, dbtr, perfvars, sse_hp_state, hwvars>>
    /\ cpu \in online
    /\ sse_event_is_global(evt) => cpu = riscv_hartid_to_cpuid(fwHart[evt])
    /\ fwState[evt][InstOf(evt, cpu)] = "ENABLED"
    /\ objs[evt].alive
    /\ InstOf(evt, cpu) \in mem[evt]
    /\ \E rd \in CallAnswers, held \in RegPairs, hret \in HandlerReturns :
          /\ dsp' = DispatchSteps([dsp EXCEPT !.regs = NoRegs, !.sip = FALSE, !.steps = <<>>],
                                  evt, InstOf(evt, cpu), rd, held, hret)
          /\ calls' = <<Call("ATTR_READ", evt, InstOf(evt, cpu), "INTERRUPTED_A6", 2, rd)>>
          /\ last' = Returned("do_sse", evt, cpu, hret)
    /\ UNCHANGED <<online, events, objs, mem, stacks, fwState, fwHart, sse_mutex,
                   cpus_readers, pc, cur>>

\* The entry from the firmware, handle_sse, followed by do_sse.  The
\* firmware delivers an event wherever it holds it enabled, with the entry
\* argument it was given at registration.  When the event and its storage
\* have been freed, do_sse and sse_handle_event read freed memory: the
\* handler and the argument they find there are any.
handle_sse(evt, cpu) ==
    /\ UNCHANGED <<world, dbtr, perfvars, sse_hp_state, hwvars>>
    /\ cpu \in online
    /\ sse_event_is_global(evt) => cpu = riscv_hartid_to_cpuid(fwHart[evt])
    /\ fwState[evt][InstOf(evt, cpu)] = "ENABLED"
    /\ \E rd \in CallAnswers, held \in RegPairs, hret \in HandlerReturns :
          LET D == MergeInterrupted(
                      ReadInterrupted([dsp EXCEPT !.regs = NoRegs, !.sip = FALSE,
                                                  !.steps = <<>>],
                                      evt, InstOf(evt, cpu), rd, held),
                      evt, InstOf(evt, cpu))
          IN  /\ IF objs[evt].alive /\ InstOf(evt, cpu) \in mem[evt]
                 THEN dsp' = SetSoftIrqPending(sse_handle_event(D, evt, hret))
                 ELSE \E h \in Handlers :
                         dsp' = SetSoftIrqPending(
                                    [D EXCEPT !.steps =
                                        Append(@, [s |-> "handler", h |-> h, evt |-> evt,
                                                   arg |-> ArgOf(h), regs |-> D.regs,
                                                   ret |-> hret])])
              /\ calls' = <<Call("ATTR_READ", evt, InstOf(evt, cpu), "INTERRUPTED_A6", 2, rd)>>
              /\ last' = Returned("do_sse", evt, cpu, hret)
    /\ UNCHANGED <<online, events, objs, mem, stacks, fwState, fwHart, sse_mutex,
                   cpus_readers, pc, cur>>

(***************************************************************************)
(* The hardware trigger manager.  The firmware answers an install with an  *)
(* error or with the index of the trigger it installed.                    *)
(***************************************************************************)
\* The indices the firmware may answer an install with: a free trigger of
\* its table, or, for a firmware that may misbehave, any index up to the
\* first one beyond the capacity.
InstallIndices(cpu) ==
    IF fwFaults
    THEN 0 .. dbtr_total_num
    ELSE (0 .. (dbtr_total_num - 1)) \ fwTrig[cpu]

\* The errors the firmware may answer an install with: none if it has a
\* trigger to give, and always one if it has none.
InstallErrors(cpu) ==
    IF InstallIndices(cpu) = {}
    THEN {SBI_ERR_FAILURE}
    ELSE IF fwFaults THEN {SBI_SUCCESS, SBI_ERR_FAILURE} ELSE {SBI_SUCCESS}

\* An install that stores the event whatever the slot holds.
InstallSlotOverwrites(table, event, error, idx) ==
    IF error # SBI_SUCCESS
    THEN [err |-> -EIO, table |-> table]
    ELSE IF idx >= dbtr_total_num
    THEN [err |-> -EINVAL, table |-> table]
    ELSE [err |-> 0, table |-> [table EXCEPT ![idx] = event]]

\* An install that stores the event before it looks at the slot.
InstallSlotStoresFirst(table, event, error, idx) ==
    IF error # SBI_SUCCESS
    THEN [err |-> -EIO, table |-> table]
    ELSE IF idx >= dbtr_total_num
    THEN [err |-> -EINVAL, table |-> table]
    ELSE [err |-> IF table[idx] # NULL THEN -EBUSY ELSE 0,
          table |-> [table EXCEPT ![idx] = event]]

\* arch_install_hw_breakpoint after the ecall: the error returned and the
\* slot table of this CPU.
InstallSlot(table, event, error, idx) ==
    IF error # SBI_SUCCESS
    THEN [err |-> -EIO, table |-> table]
    ELSE IF idx >= dbtr_total_num
    THEN [err |-> -EINVAL, table |-> table]
    ELSE IF table[idx] # NULL
    THEN [err |-> -EBUSY, table |-> table]
    ELSE [err |-> 0, table |-> [table EXCEPT ![idx] = event]]

\* Whether the event is in a slot of some CPU.
Installed(event) ==
    \E c \in CPUs, i \in TableWords : pcpu_hw_bp_events[c][i] = event

\* arch_install_hw_breakpoint on cpu, for an event that is not installed.
arch_install_hw_breakpoint(cpu, event) ==
    /\ UNCHANGED <<world, dbtr, perfvars, ssevars>>
    /\ dbtr_init = 1
    /\ ~Installed(event)
    /\ \E error \in InstallErrors(cpu) :
       \E idx \in IF error = SBI_SUCCESS THEN InstallIndices(cpu) ELSE {0} :
          LET r == InstallSlot(pcpu_hw_bp_events[cpu], event, error, idx)
          IN  /\ pcpu_hw_bp_events' = [pcpu_hw_bp_events EXCEPT ![cpu] = r.table]
              /\ fwTrig' = [fwTrig EXCEPT ![cpu] =
                               IF error = SBI_SUCCESS THEN @ \cup {idx} ELSE @]
              /\ calls' = <<Call("TRIG_INSTALL", event, cpu, "", idx, error)>>
              /\ last' = Returned("install", event, cpu, r.err)

\* A search that always ends at the first slot.
FindSlotFirst(table, event, i) == 0

\* The slot of the table that holds the event, or dbtr_total_num.
RECURSIVE FindSlot(_, _, _)
FindSlot(table, event, i) ==
    IF i >= dbtr_total_num
    THEN dbtr_total_num
    ELSE IF table[i] = event THEN i ELSE FindSlot(table, event, i + 1)

\* An uninstall that clears the slot and leaves the firmware's trigger.
arch_uninstall_hw_breakpoint_nocall(cpu, event) ==
    /\ UNCHANGED <<world, dbtr, perfvars, ssevars, fwTrig>>
    /\ dbtr_init = 1
    /\ LET i == FindSlot(pcpu_hw_bp_events[cpu], event, 0)
       IN  IF i = dbtr_total_num
           THEN UNCHANGED pcpu_hw_bp_events
           ELSE pcpu_hw_bp_events' = [pcpu_hw_bp_events EXCEPT ![cpu][i] = NULL]
    /\ calls' = <<>>
    /\ last' = Returned("uninstall", event, cpu, 0)

\* arch_uninstall_hw_breakpoint on cpu: the slot is cleared, then the
\* firmware is asked to uninstall the trigger.
arch_uninstall_hw_breakpoint(cpu, event) ==
    /\ UNCHANGED <<world, dbtr, perfvars, ssevars>>
    /\ dbtr_init = 1
    /\ LET i == FindSlot(pcpu_hw_bp_events[cpu], event, 0)
       IN  IF i = dbtr_total_num
           THEN /\ calls' = <<>>
                /\ UNCHANGED hwvars
           ELSE \E error \in CallAnswers :
                /\ pcpu_hw_bp_events' = [pcpu_hw_bp_events EXCEPT ![cpu][i] = NULL]
                /\ fwTrig' = [fwTrig EXCEPT ![cpu] =
                                 IF error = SBI_SUCCESS THEN @ \ {i} ELSE @]
                /\ calls' = <<Call("TRIG_UNINSTALL", event, cpu, "", i, error)>>
    /\ last' = Returned("uninstall", event, cpu, 0)

\* arch_enable_hw_breakpoint and arch_disable_hw_breakpoint on cpu: the
\* search of the slot, then one firmware call for its index, whose result
\* is only logged.
TriggerCall(cpu, event, func, op) ==
    /\ UNCHANGED <<world, dbtr, perfvars, ssevars, hwvars>>
    /\ dbtr_init = 1
    /\ LET i == FindSlot(pcpu_hw_bp_events[cpu], event, 0)
       IN  IF i = dbtr_total_num
           THEN calls' = <<>>
           ELSE \E error \in CallAnswers :
                    calls' = <<Call(func, event, cpu, "", i, error)>>
    /\ last' = Returned(op, event, cpu, 0)

arch_enable_hw_breakpoint(cpu, event) == TriggerCall(cpu, event, "TRIG_ENABLE", "hw_enable")

arch_disable_hw_breakpoint(cpu, event) == TriggerCall(cpu, event, "TRIG_DISABLE", "hw_disable")

(***************************************************************************)
(* The CPU hotplug callbacks of the trigger manager, which                 *)
(* arch_hw_breakpoint_init sets up once triggers were found and the shared *)
(* buffers allocated.                                                      *)
(***************************************************************************)
\* What the firmware may answer to SBI_EXT_DBTR_SETUP_SHMEM.
ShmemAnswers ==
    IF fwFaults
    THEN {SBI_SUCCESS, SBI_ERR_DENIED, SBI_ERR_INVALID_PARAM, SBI_ERR_INVALID_ADDRESS,
          SBI_ERR_ALREADY_AVAILABLE, SBI_ERR_FAILURE, SBI_ERR_NOT_SUPPORTED}
    ELSE {SBI_SUCCESS}

\* The values an int that was never assigned may hold.
Uninitialised == {-1, 0, 1}

\* The switch of arch_smp_setup_sbi_shmem on ret.error, which is entered
\* only for an error.
SetupShmemErrno(error) ==
    CASE error = SBI_ERR_DENIED -> -EPERM
      [] error \in {SBI_ERR_INVALID_PARAM, SBI_ERR_INVALID_ADDRESS} -> -EINVAL
      [] error = SBI_ERR_ALREADY_AVAILABLE -> -EADDRINUSE
      [] error = SBI_ERR_FAILURE -> -ENXIO
      [] OTHER -> -ENXIO

\* arch_smp_setup_sbi_shmem on cpu.  rc is assigned in the switch only:
\* when the call succeeds the function returns rc as it was declared.
arch_smp_setup_sbi_shmem(cpu) ==
    /\ UNCHANGED <<world, dbtr, perfvars, ssevars, hwvars>>
    /\ dbtr_init = 1
    /\ dbtr_total_num # 0
    /\ \E error \in ShmemAnswers :
       \E rc \in IF error # SBI_SUCCESS THEN {SetupShmemErrno(error)} ELSE Uninitialised :
          /\ calls' = <<Call("SETUP_SHMEM", 0, cpu, "", 0, error)>>
          /\ last' = Returned("setup_shmem", 0, cpu, rc)

\* arch_smp_teardown_sbi_shmem on cpu: the buffer is disabled; an error is
\* only logged.
arch_smp_teardown_sbi_shmem(cpu) ==
    /\ UNCHANGED <<world, dbtr, perfvars, ssevars, hwvars>>
    /\ dbtr_init = 1
    /\ dbtr_total_num # 0
    /\ \E error \in ShmemAnswers :
          /\ calls' = <<Call("SETUP_SHMEM", 0, cpu, "disable", 0, error)>>
          /\ last' = Returned("teardown_shmem", 0, cpu, 0)

(***************************************************************************)
(* The parse of a breakpoint request, on a 64-bit kernel.  A control word  *)
(* is the set of its bits that are 1.                                      *)
(***************************************************************************)

\* A zero-initialised struct arch_hw_breakpoint; tdata1 is the set of its
\* bits that are 1.
ZeroConfig ==
    [address |-> 0, len |-> 0, type |-> 0, tdata1 |-> {}, tdata2 |-> 0, tdata3 |-> 0]

\* RV_DBTR_DECLARE_BIT_MASK: the bits of a field.
RV_DBTR_BIT_MASK(bit, width) == bit .. (bit + width - 1)

\* The RV_DBTR_SET_ macros of a field: the field is cleared, then the bits
\* of val that fit in it are set.
SetField(t1, bit, width, val) ==
    (t1 \ RV_DBTR_BIT_MASK(bit, width))
        \cup ({bit + k : k \in {j \in 0 .. 7 : (val \div (2 ^ j)) % 2 = 1}}
                 \cap RV_DBTR_BIT_MASK(bit, width))

\* A legacy-format trigger whose access bits are all set.
rv_init_mcontrol_trigger_all(attr, h) ==
    [ret |-> 0,
     hw |-> [h EXCEPT !.type = RV_DBTR_WP, !.len = attr.bp_len,
                      !.tdata1 = {RV_DBTR_MC_LOAD_BIT, RV_DBTR_MC_STORE_BIT,
                                  RV_DBTR_MC_EXEC_BIT}]]

\* rv_init_mcontrol_trigger: what it returns and what it leaves in hw.
rv_init_mcontrol_trigger(attr, h) ==
    LET typed ==
            CASE attr.bp_type = HW_BREAKPOINT_X ->
                     [h EXCEPT !.type = RV_DBTR_BP,
                               !.tdata1 = @ \cup {RV_DBTR_MC_EXEC_BIT}]
              [] attr.bp_type = HW_BREAKPOINT_R ->
                     [h EXCEPT !.type = RV_DBTR_WP,
                               !.tdata1 = @ \cup {RV_DBTR_MC_LOAD_BIT}]
              [] attr.bp_type = HW_BREAKPOINT_W ->
                     [h EXCEPT !.type = RV_DBTR_WP,
                               !.tdata1 = @ \cup {RV_DBTR_MC_STORE_BIT}]
              [] attr.bp_type = HW_BREAKPOINT_RW ->
                     [h EXCEPT !.type = RV_DBTR_WP,
                               !.tdata1 = @ \cup {RV_DBTR_MC_LOAD_BIT, RV_DBTR_MC_STORE_BIT}]
              [] OTHER -> h
        sized ==
            CASE attr.bp_len = HW_BREAKPOINT_LEN_1 ->
                     [typed EXCEPT !.len = 1,
                                   !.tdata1 = SetField(@, RV_DBTR_MC_SIZELO_BIT, 2, 1)]
              [] attr.bp_len = HW_BREAKPOINT_LEN_2 ->
                     [typed EXCEPT !.len = 2,
                                   !.tdata1 = SetField(@, RV_DBTR_MC_SIZELO_BIT, 2, 2)]
              [] attr.bp_len = HW_BREAKPOINT_LEN_4 ->
                     [typed EXCEPT !.len = 4,
                                   !.tdata1 = SetField(@, RV_DBTR_MC_SIZELO_BIT, 2, 3)]
              [] attr.bp_len = HW_BREAKPOINT_LEN_8 ->
                     [typed EXCEPT !.len = 8,
                                   !.tdata1 = SetField(SetField(@, RV_DBTR_MC_SIZELO_BIT, 2, 1),
                                                       RV_DBTR_MC_SIZEHI_BIT, 2, 1)]
              [] OTHER -> typed
        cleared == {RV_DBTR_MC_DMODE_BIT, RV_DBTR_MC_TIMING_BIT, RV_DBTR_MC_SELECT_BIT,
                    RV_DBTR_MC_ACTION_BIT, RV_DBTR_MC_CHAIN_BIT, RV_DBTR_MC_MATCH_BIT,
                    RV_DBTR_MC_M_BIT}
    IN  IF attr.bp_type \notin {HW_BREAKPOINT_X, HW_BREAKPOINT_R, HW_BREAKPOINT_W,
                                HW_BREAKPOINT_RW}
        THEN [ret |-> -EINVAL, hw |-> h]
        ELSE IF attr.bp_len \notin {HW_BREAKPOINT_LEN_1, HW_BREAKPOINT_LEN_2,
                                    HW_BREAKPOINT_LEN_4, HW_BREAKPOINT_LEN_8}
        THEN [ret |-> -EINVAL, hw |-> typed]
        ELSE [ret |-> 0,
              hw |-> [sized EXCEPT !.tdata1 =
                        (SetField(@, RV_DBTR_MC_TYPE_BIT, 4, RV_DBTR_TRIG_MCONTROL) \ cleared)
                            \cup {RV_DBTR_MC_S_BIT, RV_DBTR_MC_U_BIT}]]

\* rv_init_mcontrol6_trigger: what it returns and what it leaves in hw.
rv_init_mcontrol6_trigger(attr, h) ==
    LET typed ==
            CASE attr.bp_type = HW_BREAKPOINT_X ->
                     [h EXCEPT !.type = RV_DBTR_BP,
                               !.tdata1 = @ \cup {RV_DBTR_MC6_EXEC_BIT}]
              [] attr.bp_type = HW_BREAKPOINT_R ->
                     [h EXCEPT !.type = RV_DBTR_WP,
                               !.tdata1 = @ \cup {RV_DBTR_MC6_LOAD_BIT}]
              [] attr.bp_type = HW_BREAKPOINT_W ->
                     [h EXCEPT !.type = RV_DBTR_WP,
                               !.tdata1 = @ \cup {RV_DBTR_MC6_STORE_BIT}]
              [] attr.bp_type = HW_BREAKPOINT_RW ->
                     [h EXCEPT !.type = RV_DBTR_WP,
                               !.tdata1 = @ \cup {RV_DBTR_MC6_STORE_BIT, RV_DBTR_MC6_LOAD_BIT}]
              [] OTHER -> h
        sized ==
            CASE attr.bp_len = HW_BREAKPOINT_LEN_1 ->
                     [typed EXCEPT !.len = 1,
                                   !.tdata1 = SetField(@, RV_DBTR_MC6_SIZE_BIT, 4, 1)]
              [] attr.bp_len = HW_BREAKPOINT_LEN_2 ->
                     [typed EXCEPT !.len = 2,
                                   !.tdata1 = SetField(@, RV_DBTR_MC6_SIZE_BIT, 4, 2)]
              [] attr.bp_len = HW_BREAKPOINT_LEN_4 ->
                     [typed EXCEPT !.len = 4,
                                   !.tdata1 = SetField(@, RV_DBTR_MC6_SIZE_BIT, 4, 3)]
              [] attr.bp_len = HW_BREAKPOINT_LEN_8 ->
                     [typed EXCEPT !.len = 8,
                                   !.tdata1 = SetField(@, RV_DBTR_MC6_SIZE_BIT, 4, 5)]
              [] OTHER -> typed
        cleared == {RV_DBTR_MC6_DMODE_BIT, RV_DBTR_MC6_TIMING_BIT, RV_DBTR_MC6_SELECT_BIT,
                    RV_DBTR_MC6_ACTION_BIT, RV_DBTR_MC6_CHAIN_BIT, RV_DBTR_MC6_MATCH_BIT,
                    RV_DBTR_MC6_M_BIT, RV_DBTR_MC6_VS_BIT, RV_DBTR_MC6_VU_BIT}
    IN  IF attr.bp_type \notin {HW_BREAKPOINT_X, HW_BREAKPOINT_R, HW_BREAKPOINT_W,
                                HW_BREAKPOINT_RW}
        THEN [ret |-> -EINVAL, hw |-> h]
        ELSE IF attr.bp_len \notin {HW_BREAKPOINT_LEN_1, HW_BREAKPOINT_LEN_2,
                                    HW_BREAKPOINT_LEN_4, HW_BREAKPOINT_LEN_8}
        THEN [ret |-> -EINVAL, hw |-> typed]
        ELSE [ret |-> 0,
              hw |-> [sized EXCEPT !.tdata1 =
                        (SetField(@, RV_DBTR_MC6_TYPE_BIT, 4, RV_DBTR_TRIG_MCONTROL6) \ cleared)
                            \cup {RV_DBTR_MC6_S_BIT, RV_DBTR_MC6_U_BIT}]]

\* hw_breakpoint_arch_parse: what it returns and what it leaves in hw.
hw_breakpoint_arch_parse(attr, h) ==
    LET addressed == [h EXCEPT !.address = attr.bp_addr,
                               !.tdata2 = attr.bp_addr,
                               !.tdata3 = 0]
    IN  CASE dbtr_type = RV_DBTR_TRIG_MCONTROL -> rv_init_mcontrol_trigger(attr, addressed)
          [] dbtr_type = RV_DBTR_TRIG_MCONTROL6 -> rv_init_mcontrol6_trigger(attr, addressed)
          [] OTHER -> [ret |-> -EOPNOTSUPP, hw |-> addressed]

\* The requests: every type and length up to the largest, at an address.
Attrs ==
    [bp_type : 0 .. (HW_BREAKPOINT_RW + HW_BREAKPOINT_X),
     bp_len : 0 .. HW_BREAKPOINT_LEN_8,
     bp_addr : {1, 2}]

\* The perf core's parse of a request: hw_breakpoint_arch_parse on a
\* zero-initialised arch_hw_breakpoint.
hw_breakpoint_parse(attr) ==
    /\ UNCHANGED <<world, dbtr, bp_hits, die_args, ssevars, hwvars>>
    /\ dbtr_init = 1
    /\ LET r == hw_breakpoint_arch_parse(attr, ZeroConfig)
       IN  /\ hw' = r.hw
           /\ last' = Returned("parse", 0, 0, r.ret)
    /\ bp_attr' = attr
    /\ calls' = <<>>

(***************************************************************************)
(* The debug trap.                                                         *)
(***************************************************************************)

\* The addresses of the traps and of the perf events.
Addresses == {1, 2}

\* The die notifications: a debug trap and another one.
DieVals == {"DIE_DEBUG", "DIE_OOPS"}

\* The type and the address in the arch_hw_breakpoint of a perf event: a
\* breakpoint and a watchpoint of the first address, and breakpoints of
\* the second.
counter_arch_bp(event) ==
    CASE event = 1 -> [type |-> RV_DBTR_BP, address |-> 1]
      [] event = 2 -> [type |-> RV_DBTR_WP, address |-> 1]
      [] OTHER -> [type |-> RV_DBTR_BP, address |-> 2]

NoHits == [ret |-> NOTIFY_DONE, hits |-> <<>>]

\* A handler that compares every address with the trap's epc.
RECURSIVE hw_breakpoint_handler_epc(_, _, _, _, _)
hw_breakpoint_handler_epc(table, epc, stval, i, r) ==
    IF i >= dbtr_total_num
    THEN r
    ELSE LET event == table[i]
             bp == counter_arch_bp(event)
             next == IF event = NULL
                     THEN r
                     ELSE IF bp.address = epc
                     THEN [ret |-> NOTIFY_STOP, hits |-> Append(r.hits, event)]
                     ELSE r
         IN  hw_breakpoint_handler_epc(table, epc, stval, i + 1, next)

\* hw_breakpoint_handler from slot i on: the perf events it has passed to
\* perf_bp_event, and what it returns.
RECURSIVE hw_breakpoint_handler(_, _, _, _, _)
hw_breakpoint_handler(table, epc, stval, i, r) ==
    IF i >= dbtr_total_num
    THEN r
    ELSE LET event == table[i]
             bp == counter_arch_bp(event)
             next == IF event = NULL
                     THEN r
                     ELSE IF bp.type = RV_DBTR_BP
                     THEN IF bp.address = epc
                          THEN [ret |-> NOTIFY_STOP, hits |-> Append(r.hits, event)]
                          ELSE r
                     ELSE IF bp.type = RV_DBTR_WP
                     THEN IF bp.address = stval
                          THEN [ret |-> NOTIFY_STOP, hits |-> Append(r.hits, event)]
                          ELSE r
                     ELSE r
         IN  hw_breakpoint_handler(table, epc, stval, i + 1, next)

\* hw_breakpoint_exceptions_notify on cpu for a die notification.
hw_breakpoint_exceptions_notify(cpu, val, epc, stval) ==
    /\ UNCHANGED <<world, dbtr, hw, bp_attr, ssevars, hwvars>>
    /\ dbtr_init = 1
    /\ LET r == IF val # "DIE_DEBUG"
                THEN NoHits
                ELSE hw_breakpoint_handler(pcpu_hw_bp_events[cpu], epc, stval, 0, NoHits)
       IN  /\ bp_hits' = r.hits
           /\ last' = Returned("notify", 0, cpu, r.ret)
    /\ die_args' = [val |-> val, epc |-> epc, stval |-> stval]
    /\ calls' = <<>>

(***************************************************************************)
(* Discovery of the triggers.                                              *)
(***************************************************************************)

\* The firmware's answer to a count query: an error, or a count.
NumAnswers ==
    {[err |-> SBI_SUCCESS, value |-> n] : n \in 0 .. MaxCapacity}
        \cup (IF fwFaults THEN {[err |-> SBI_ERR_FAILURE, value |-> 0]} ELSE {})

\* What the firmware answers to one discovery: the probe of the extension,
\* the query without a type, the query of type 6 and the query of type 2.
DiscoveryAnswers ==
    [probe : IF fwFaults THEN {0, 1} ELSE {1},
     any : {a \in NumAnswers : a.value = 0},
     t6 : NumAnswers,
     t2 : NumAnswers]

\* The log entry of a count query for a trigger type.
NumTriggers(type, a) == Call("NUM_TRIGGERS", 0, type, "", a.value, a.err)

\* A discovery that asks for type 2 before type 6.
init_sbi_dbtr_legacy_first(in) ==
    LET probe == <<Call("PROBE_EXTENSION", 0, 0, "", in.probe, SBI_SUCCESS)>>
        any == probe \o <<NumTriggers(RV_DBTR_TRIG_NONE, in.any)>>
        t2 == any \o <<NumTriggers(RV_DBTR_TRIG_MCONTROL, in.t2)>>
        t6 == t2 \o <<NumTriggers(RV_DBTR_TRIG_MCONTROL6, in.t6)>>
    IN  IF in.probe <= 0
        THEN [total |-> 0, type |-> dbtr_type, log |-> probe]
        ELSE IF in.any.err # SBI_SUCCESS
        THEN [total |-> 0, type |-> dbtr_type, log |-> any]
        ELSE IF in.t2.err = SBI_SUCCESS /\ in.t2.value # 0
        THEN [total |-> in.t2.value, type |-> RV_DBTR_TRIG_MCONTROL, log |-> t2]
        ELSE IF in.t6.err = SBI_SUCCESS /\ in.t6.value # 0
        THEN [total |-> in.t6.value, type |-> RV_DBTR_TRIG_MCONTROL6, log |-> t6]
        ELSE [total |-> dbtr_total_num, type |-> dbtr_type, log |-> t6]

\* init_sbi_dbtr: the number and the type of the triggers it records, and
\* the firmware calls it makes.
init_sbi_dbtr(in) ==
    LET probe == <<Call("PROBE_EXTENSION", 0, 0, "", in.probe, SBI_SUCCESS)>>
        any == probe \o <<NumTriggers(RV_DBTR_TRIG_NONE, in.any)>>
        t6 == any \o <<NumTriggers(RV_DBTR_TRIG_MCONTROL6, in.t6)>>
        t2 == t6 \o <<NumTriggers(RV_DBTR_TRIG_MCONTROL, in.t2)>>
    IN  IF in.probe <= 0
        THEN [total |-> 0, type |-> dbtr_type, log |-> probe]
        ELSE IF in.any.err # SBI_SUCCESS
        THEN [total |-> 0, type |-> dbtr_type, log |-> any]
        ELSE IF in.t6.err = SBI_SUCCESS /\ in.t6.value # 0
        THEN [total |-> in.t6.value, type |-> RV_DBTR_TRIG_MCONTROL6, log |-> t6]
        ELSE IF in.t2.err = SBI_SUCCESS /\ in.t2.value # 0
        THEN [total |-> in.t2.value, type |-> RV_DBTR_TRIG_MCONTROL, log |-> t2]
        ELSE [total |-> dbtr_total_num, type |-> dbtr_type, log |-> t2]

\* hw_breakpoint_slots: discovery if it has not run, then the number of
\* triggers.
hw_breakpoint_slots ==
    /\ UNCHANGED <<world, perfvars, ssevars, hwvars>>
    /\ IF dbtr_init = 0
       THEN \E in \in DiscoveryAnswers :
               LET r == init_sbi_dbtr(in)
               IN  /\ dbtr_total_num' = r.total
                   /\ dbtr_type' = r.type
                   /\ dbtr_init' = 1
                   /\ calls' = r.log
                   /\ last' = Returned("slots", 0, 0, r.total)
       ELSE /\ UNCHANGED dbtr
            /\ calls' = <<>>
            /\ last' = Returned("slots", 0, 0, dbtr_total_num)

\* The trigger manager before discovery: the statics are zero.
Undiscovered ==
    /\ dbtr_total_num = 0
    /\ dbtr_type = RV_DBTR_TRIG_NONE
    /\ dbtr_init = 0

(***************************************************************************)
(* The system after sse_init(): every CPU online, no event registered, the *)
(* firmware holding no registration, each global event's preferred hart    *)
(* some hart of the platform.                                              *)
(***************************************************************************)
BootWith(after) ==
    /\ online = CPUs
    /\ events = <<>>
    /\ objs = [e \in EvtIds |-> NoObj]
    /\ mem = [e \in EvtIds |-> {}]
    /\ fwState = [e \in EvtIds |-> [i \in Instances(e) |-> "UNUSED"]]
    /\ fwHart \in [GlobalIds -> Harts]
    /\ sse_mutex = NoThread
    /\ cpus_readers = {}
    /\ pc = [t \in Threads |-> "idle"]
    /\ cur = [t \in Threads |-> NoCur]
    /\ calls = <<>>
    /\ last = Returned("none", 0, 0, 0)
    /\ sse_hp_state = TRUE
    /\ stacks = [e \in EvtIds |-> {}]
    /\ dsp = NoDispatch
    /\ pcpu_hw_bp_events =
          [c \in CPUs |-> [i \in TableWords |-> IF i \in Slots THEN NULL ELSE after]]
    /\ fwTrig = [c \in CPUs |-> {}]
    /\ bp_hits = <<>>
    /\ hw = ZeroConfig
    /\ die_args = [val |-> "DIE_UNUSED", epc |-> 0, stval |-> 0]
    /\ bp_attr = [bp_type |-> 0, bp_len |-> 0, bp_addr |-> 0]

Boot == BootWith(NULL)

\* The systems explored: clients that use one event id, local or global,
\* with a firmware that may refuse any call.
Init ==
    /\ Boot
    /\ clients \in {{e} : e \in EvtIds}
    /\ fwFaults = TRUE
    /\ stackFaults = FALSE
    /\ Undiscovered

InitL == Boot /\ clients = {0} /\ fwFaults = TRUE /\ stackFaults = FALSE /\ Undiscovered
InitG == Boot /\ clients = {SBI_SSE_EVENT_GLOBAL} /\ fwFaults = TRUE /\ stackFaults = FALSE /\ Undiscovered

\* Clients that use the local event id, with a firmware that serves every
\* call the state of the event allows.
InitQ == Boot /\ clients = {0} /\ fwFaults = FALSE /\ stackFaults = FALSE /\ Undiscovered

\* Clients that use the global event id, with such a firmware.
InitGQ == Boot /\ clients = {SBI_SSE_EVENT_GLOBAL} /\ fwFaults = FALSE /\ stackFaults = FALSE /\ Undiscovered

Next ==
    \/ \E t \in Threads, evt \in clients, h \in Handlers : sse_event_register(t, evt, h)
    \/ \E t \in Threads : sse_event_register_add(t)
    \/ \E t \in Threads, evt \in clients : sse_event_unregister(t, evt)
    \/ \E t \in Threads : sse_event_unregister_del(t)
    \/ \E t \in Threads, evt \in clients : sse_event_enable(t, evt)
    \/ \E t \in Threads, evt \in clients : sse_event_disable(t, evt)
    \/ \E t \in Threads, evt \in clients, cpu \in CPUs : sse_event_set_target_cpu(t, evt, cpu)
    \/ \E cpu \in CPUs : sse_cpu_online(cpu)
    \/ \E cpu \in CPUs, next_cpu \in CPUs : sse_cpu_teardown(cpu, next_cpu)

Spec == Init /\ [][Next]_vars
SpecL == InitL /\ [][Next]_vars
SpecG == InitG /\ [][Next]_vars
SpecQ == InitQ /\ [][Next]_vars
SpecGQ == InitGQ /\ [][Next]_vars

\* The operations above and the notifiers.
NextN ==
    \/ \E t \in Threads, evt \in clients, h \in Handlers : sse_event_register(t, evt, h)
    \/ \E t \in Threads : sse_event_register_add(t)
    \/ \E t \in Threads, evt \in clients : sse_event_unregister(t, evt)
    \/ \E t \in Threads : sse_event_unregister_del(t)
    \/ \E t \in Threads, evt \in clients : sse_event_enable(t, evt)
    \/ \E t \in Threads, evt \in clients : sse_event_disable(t, evt)
    \/ \E t \in Threads, evt \in clients, cpu \in CPUs : sse_event_set_target_cpu(t, evt, cpu)
    \/ \E cpu \in CPUs : sse_cpu_online(cpu)
    \/ \E cpu \in CPUs, next_cpu \in CPUs : sse_cpu_teardown(cpu, next_cpu)
    \/ \E cpu \in CPUs, action \in PmActions : sse_pm_notifier(cpu, action)
    \/ sse_reboot_notifier

SpecN == InitQ /\ [][NextN]_vars

\* Clients that use the local event id where a stack allocation may fail.
InitS ==
    Boot /\ clients = {0} /\ fwFaults = FALSE /\ stackFaults = TRUE /\ Undiscovered
SpecS == InitS /\ [][Next]_vars

\* The operations and the delivery of events, for clients that use one id
\* and a firmware that serves the calls the state of the event allows.
InitD == Boot /\ clients \in {{e} : e \in EvtIds} /\ fwFaults = FALSE /\ stackFaults = FALSE /\ Undiscovered

NextD ==
    \/ \E t \in Threads, evt \in clients, h \in Handlers : sse_event_register(t, evt, h)
    \/ \E t \in Threads : sse_event_register_add(t)
    \/ \E t \in Threads, evt \in clients : sse_event_unregister(t, evt)
    \/ \E t \in Threads : sse_event_unregister_del(t)
    \/ \E t \in Threads, evt \in clients : sse_event_enable(t, evt)
    \/ \E t \in Threads, evt \in clients : sse_event_disable(t, evt)
    \/ \E t \in Threads, evt \in clients, cpu \in CPUs : sse_event_set_target_cpu(t, evt, cpu)
    \/ \E cpu \in CPUs : sse_cpu_online(cpu)
    \/ \E cpu \in CPUs, next_cpu \in CPUs : sse_cpu_teardown(cpu, next_cpu)
    \/ \E evt \in clients, cpu \in CPUs : do_sse(evt, cpu)

SpecD == InitD /\ [][NextD]_vars

\* The same with the delivery of every event the firmware holds enabled.
NextU ==
    \/ \E t \in Threads, evt \in clients, h \in Handlers : sse_event_register(t, evt, h)
    \/ \E t \in Threads : sse_event_register_add(t)
    \/ \E t \in Threads, evt \in clients : sse_event_unregister(t, evt)
    \/ \E t \in Threads : sse_event_unregister_del(t)
    \/ \E t \in Threads, evt \in clients : sse_event_enable(t, evt)
    \/ \E t \in Threads, evt \in clients : sse_event_disable(t, evt)
    \/ \E t \in Threads, evt \in clients, cpu \in CPUs : sse_event_set_target_cpu(t, evt, cpu)
    \/ \E cpu \in CPUs : sse_cpu_online(cpu)
    \/ \E cpu \in CPUs, next_cpu \in CPUs : sse_cpu_teardown(cpu, next_cpu)
    \/ \E evt \in clients, cpu \in CPUs : handle_sse(evt, cpu)

SpecU == InitD /\ [][NextU]_vars

\* The trigger manager after arch_hw_breakpoint_init() found a capacity,
\* with a firmware that may refuse an install and may answer any index.
InitHw ==
    /\ Boot
    /\ clients = {0}
    /\ fwFaults = TRUE
    /\ stackFaults = FALSE
    /\ dbtr_total_num \in Capacities
    /\ dbtr_type = RV_DBTR_TRIG_MCONTROL6
    /\ dbtr_init = 1

NextHw ==
    \/ \E cpu \in CPUs, event \in PerfEvents : arch_install_hw_breakpoint(cpu, event)
    \/ \E cpu \in CPUs, event \in PerfEvents : arch_uninstall_hw_breakpoint(cpu, event)
    \/ \E cpu \in CPUs, event \in PerfEvents : arch_enable_hw_breakpoint(cpu, event)
    \/ \E cpu \in CPUs, event \in PerfEvents : arch_disable_hw_breakpoint(cpu, event)

SpecHw == InitHw /\ [][NextHw]_vars

\* One CPU's trigger manager with a capacity of ScenarioCapacity and a
\* firmware that serves every call and answers an install with a free
\* trigger index, used by more perf events than there are triggers.
InitHwQ ==
    /\ Boot
    /\ clients = {0}
    /\ fwFaults = FALSE
    /\ stackFaults = FALSE
    /\ dbtr_total_num = ScenarioCapacity
    /\ dbtr_type = RV_DBTR_TRIG_MCONTROL6
    /\ dbtr_init = 1

NextHwQ ==
    \/ \E event \in ScenarioEvents : arch_install_hw_breakpoint(0, event)
    \/ \E event \in ScenarioEvents : arch_uninstall_hw_breakpoint(0, event)

SpecHwQ == InitHwQ /\ [][NextHwQ]_vars

\* The trigger manager of CPU 0 after a discovery in which the firmware
\* reported as many triggers as the table has slots, or one more: the
\* count is recorded as reported.  The firmware serves every call and
\* answers an install with a free trigger index.
InitCap ==
    /\ \E after \in {NULL, Garbage} : BootWith(after)
    /\ clients = {0}
    /\ fwFaults = FALSE
    /\ stackFaults = FALSE
    /\ dbtr_total_num \in {HW_BP_NUM_MAX, HW_BP_NUM_MAX + 1}
    /\ dbtr_type = RV_DBTR_TRIG_MCONTROL6
    /\ dbtr_init = 1

NextCap ==
    \/ \E event \in CapEvents : arch_install_hw_breakpoint(0, event)
    \/ \E event \in CapEvents : arch_uninstall_hw_breakpoint(0, event)

SpecCap == InitCap /\ [][NextCap]_vars

\* The trigger manager with its hotplug callbacks, with a firmware that
\* may answer any call with an error.
NextShm ==
    \/ \E cpu \in CPUs : arch_smp_setup_sbi_shmem(cpu)
    \/ \E cpu \in CPUs : arch_smp_teardown_sbi_shmem(cpu)
    \/ \E event \in PerfEvents : arch_install_hw_breakpoint(0, event)
    \/ \E event \in PerfEvents : arch_uninstall_hw_breakpoint(0, event)

SpecShm == InitHw /\ [][NextShm]_vars

\* The firmware served every call of the operation of the latest step.
NoCallFailed == \A k \in 1 .. Len(calls) : calls[k].err = SBI_SUCCESS

\* The runs of SpecQ in which no firmware call has failed.
NextOk ==
    \/ /\ \E t \in Threads, evt \in clients, h \in Handlers : sse_event_register(t, evt, h)
       /\ NoCallFailed'
    \/ /\ \E t \in Threads : sse_event_register_add(t)
       /\ NoCallFailed'
    \/ /\ \E t \in Threads, evt \in clients : sse_event_unregister(t, evt)
       /\ NoCallFailed'
    \/ /\ \E t \in Threads : sse_event_unregister_del(t)
       /\ NoCallFailed'
    \/ /\ \E t \in Threads, evt \in clients : sse_event_enable(t, evt)
       /\ NoCallFailed'
    \/ /\ \E t \in Threads, evt \in clients : sse_event_disable(t, evt)
       /\ NoCallFailed'
    \/ /\ \E t \in Threads, evt \in clients, cpu \in CPUs : sse_event_set_target_cpu(t, evt, cpu)
       /\ NoCallFailed'
    \/ /\ \E cpu \in CPUs : sse_cpu_online(cpu)
       /\ NoCallFailed'
    \/ /\ \E cpu \in CPUs, next_cpu \in CPUs : sse_cpu_teardown(cpu, next_cpu)
       /\ NoCallFailed'

SpecOk == InitQ /\ [][NextOk]_vars

\* Every system of Init with the notifiers.
SpecA == Init /\ [][NextN]_vars

\* The trigger manager after a discovery that found no trigger, triggers
\* of type 2 or triggers of type 6.
InitParse ==
    /\ Boot
    /\ clients = {0}
    /\ fwFaults = FALSE
    /\ stackFaults = FALSE
    /\ dbtr_init = 1
    /\ dbtr_type \in {RV_DBTR_TRIG_NONE, RV_DBTR_TRIG_MCONTROL, RV_DBTR_TRIG_MCONTROL6}
    /\ dbtr_total_num = IF dbtr_type = RV_DBTR_TRIG_NONE THEN 0 ELSE MaxCapacity

NextParse == \E attr \in Attrs : hw_breakpoint_parse(attr)

SpecParse == InitParse /\ [][NextParse]_vars

\* The trigger manager of InitHwQ with its debug traps.
NextTrap ==
    \/ \E cpu \in CPUs, event \in PerfEvents : arch_install_hw_breakpoint(cpu, event)
    \/ \E cpu \in CPUs, event \in PerfEvents : arch_uninstall_hw_breakpoint(cpu, event)
    \/ \E cpu \in CPUs, val \in DieVals, epc \in Addresses, stval \in Addresses :
          hw_breakpoint_exceptions_notify(cpu, val, epc, stval)

SpecTrap == InitHwQ /\ [][NextTrap]_vars

\* The trigger manager from before discovery, with a firmware that may
\* refuse any call.
InitDisc ==
    /\ Boot
    /\ clients = {0}
    /\ fwFaults = TRUE
    /\ stackFaults = FALSE
    /\ Undiscovered

NextDisc ==
    \/ hw_breakpoint_slots
    \/ \E event \in PerfEvents : arch_install_hw_breakpoint(0, event)
    \/ \E event \in PerfEvents : arch_uninstall_hw_breakpoint(0, event)
    \/ \E event \in PerfEvents : arch_enable_hw_breakpoint(0, event)
    \/ \E event \in PerfEvents : arch_disable_hw_breakpoint(0, event)

SpecDisc == InitDisc /\ [][NextDisc]_vars

(***************************************************************************)
(* Properties.  last names the operation the latest step belongs to, so a  *)
(* step of an operation is one whose next state has that operation in      *)
(* last.op; calls is then the list of firmware calls the operation made.   *)
(***************************************************************************)
Idle == \A t \in Threads : pc[t] = "idle"

\* The step is the first step of a sse_event_register(evt, handler) call.
RegisterCalled(evt) ==
    /\ Idle
    /\ last'.op \in {"register", "register_fw"}
    /\ last'.evt = evt

NoDuplicateId ==
    \A i, j \in 1 .. Len(events) : events[i] = events[j] => i = j

\* C1: the events list never holds two events with the same id, with any
\* number of threads calling sse_event_register; and a call for an id that
\* is in the list returns ERR_PTR(-EEXIST), makes no firmware call, and
\* leaves the list, the event of that id (handler, enabled flag, target
\* cpu), its storage and the firmware's state as they were.
C1_DuplicateRegister ==
    /\ []NoDuplicateId
    /\ [][\A evt \in EvtIds :
            (RegisterCalled(evt) /\ InList(evt)) =>
                /\ last'.ret = ERR_PTR(-EEXIST)
                /\ calls' = <<>>
                /\ events' = events
                /\ objs' = objs
                /\ mem' = mem
                /\ fwState' = fwState
                /\ fwHart' = fwHart]_vars

\* A duplicate registration, with another handler, has been refused.
C1_Witness ==
    /\ last.op = "register"
    /\ last.ret = ERR_PTR(-EEXIST)
    /\ InList(last.evt)
    /\ objs[last.evt].handler # last.arg

\* The firmware answered the call func of evt on instance inst with an
\* error, or with success.
Refused(log, func, evt, inst) ==
    \E i \in 1 .. Len(log) :
        /\ log[i].f = func /\ log[i].evt = evt /\ log[i].inst = inst
        /\ log[i].err # SBI_SUCCESS

Served(log, func, evt, inst) ==
    \E i \in 1 .. Len(log) :
        /\ log[i].f = func /\ log[i].evt = evt /\ log[i].inst = inst
        /\ log[i].err = SBI_SUCCESS

\* The instances of evt the online CPUs work on.
OnlineInstances(evt) == OnlineInstancesOf(evt)

\* The latest step is a sse_event_register call that made firmware calls
\* and returned no event: a firmware call of the registration failed.
RegisterFailedInFirmware ==
    /\ last.op = "register"
    /\ last.ret <= 0
    /\ calls # <<>>

\* C2: when sse_event_register fails on a firmware call, the event is not
\* in the events list and its storage is freed; a failed global registration
\* leaves the firmware's state of the id as it was, and after a failed local
\* registration an online CPU holds a registration of the id only if the
\* firmware refused the unregister call of the rollback on that CPU.
C2_FailedRegisterRolledBack ==
    [][\A evt \in EvtIds :
        (RegisterCalled(evt) /\ RegisterFailedInFirmware') =>
            /\ ~InList(evt)'
            /\ mem'[evt] = {}
            /\ ~objs'[evt].alive
            /\ IF sse_event_is_global(evt)
               THEN fwState' = fwState
               ELSE \A c \in online :
                       fwState'[evt][c] # "UNUSED" => Refused(calls', "UNREGISTER", evt, c)]_vars

\* A local registration that succeeded on one CPU and failed on another has
\* been rolled back.
C2_Witness ==
    /\ RegisterFailedInFirmware
    /\ ~sse_event_is_global(last.evt)
    /\ \E c \in online :
          /\ Served(calls, "REGISTER", last.evt, c)
          /\ Served(calls, "UNREGISTER", last.evt, c)
          /\ fwState[last.evt][c] = "UNUSED"
    /\ \E c \in online : Refused(calls, "REGISTER", last.evt, c)

\* C2 as stated: after a registration that failed on a firmware call the
\* event is not in the list, its storage is freed, and the firmware holds
\* no registration of the id for any online CPU.
C2_AsStated ==
    RegisterFailedInFirmware =>
        /\ ~InList(last.evt)
        /\ mem[last.evt] = {}
        /\ \A i \in OnlineInstances(last.evt) : fwState[last.evt][i] = "UNUSED"

\* C3: when the register call fails on some online CPU during the
\* registration of a local event, sse_event_register returns an error
\* pointer, never NULL or an event.
C3_LocalFailureReturnsError ==
    ( /\ last.op = "register"
      /\ ~sse_event_is_global(last.evt)
      /\ \E c \in online : Refused(calls, "REGISTER", last.evt, c) )
    => IS_ERR(last.ret)

\* The latest step is a sse_event_enable call on a local event during which
\* the enable call failed on some online CPU.
LocalEnableFailed ==
    /\ last.op = "enable"
    /\ ~sse_event_is_global(last.evt)
    /\ \E c \in online : Refused(calls, "ENABLE", last.evt, c)

\* C4: when sse_event_enable on a local event fails on some online CPU,
\* the event's enabled flag is what it was before the call (false, if the
\* event was not enabled), and a CPU is left enabled in the firmware only if
\* the firmware refused the disable call of the rollback on that CPU.
C4_FailedEnableRolledBack ==
    [][\A evt \in EvtIds :
        (LocalEnableFailed' /\ last'.evt = evt) =>
            /\ objs'[evt].is_enabled = objs[evt].is_enabled
            /\ \A c \in online :
                  fwState'[evt][c] = "ENABLED" => Refused(calls', "DISABLE", evt, c)]_vars

\* An enable of a disabled local event that succeeded on one CPU and failed
\* on another has been rolled back: no CPU is enabled, the flag is false.
C4_Witness ==
    /\ LocalEnableFailed
    /\ \E c \in online :
          /\ Served(calls, "ENABLE", last.evt, c)
          /\ Served(calls, "DISABLE", last.evt, c)
    /\ \A c \in online : fwState[last.evt][c] # "ENABLED"
    /\ ~objs[last.evt].is_enabled

\* C4 as stated: after a failed enable of a local event no online CPU is
\* enabled in the firmware and the enabled flag is false.
C4_AsStated ==
    LocalEnableFailed =>
        /\ \A c \in online : fwState[last.evt][c] # "ENABLED"
        /\ ~objs[last.evt].is_enabled

\* C5: sse_event_enable returns a non-zero error when an enable call fails
\* (the one call of a global event, or the call on some online CPU of a
\* local event), and returns 0 only when the event is enabled in the
\* firmware and its enabled flag is true.
C5_EnableReportsFailure ==
    last.op = "enable" =>
        /\ (\E i \in OnlineInstances(last.evt) : Refused(calls, "ENABLE", last.evt, i))
              => last.ret # 0
        /\ last.ret = 0 =>
              /\ objs[last.evt].is_enabled
              /\ \A i \in OnlineInstances(last.evt) : fwState[last.evt][i] = "ENABLED"

\* The step is a sse_event_set_target_cpu(evt, cpu) call.
SetTargetCpuCalled(evt, cpu) ==
    /\ last'.op = "set_target_cpu"
    /\ last'.evt = evt
    /\ last'.arg = cpu

\* C6: sse_event_set_target_cpu returns -EINVAL for a local event; for a
\* global event and a CPU that is not online it returns -EINVAL, makes no
\* firmware call and leaves the event's recorded cpu and enabled flag, and
\* the firmware's state of the event, as they were.
C6_SetTargetCpuInvalid ==
    [][\A evt \in EvtIds, cpu \in CPUs :
        SetTargetCpuCalled(evt, cpu) =>
            /\ ~sse_event_is_global(evt) => last'.ret = -EINVAL
            /\ (sse_event_is_global(evt) /\ cpu \notin online) =>
                  /\ last'.ret = -EINVAL
                  /\ calls' = <<>>
                  /\ objs'[evt].cpu = objs[evt].cpu
                  /\ objs'[evt].is_enabled = objs[evt].is_enabled
                  /\ fwState' = fwState
                  /\ fwHart' = fwHart]_vars

\* A target change of a global event to a CPU that is not online, another
\* CPU than the recorded one, has been refused.
C6_Witness ==
    /\ last.op = "set_target_cpu"
    /\ sse_event_is_global(last.evt)
    /\ last.arg \notin online
    /\ last.arg # objs[last.evt].cpu
    /\ last.ret = -EINVAL

\* C7: whenever no operation is in progress, the recorded cpu of a
\* registered global event is the CPU of the preferred hart the firmware
\* holds for it.
C7_RecordedCpuIsPreferredHart ==
    \A evt \in GlobalIds :
        (Idle /\ InList(evt)) => cpuid_to_hartid_map(objs[evt].cpu) = fwHart[evt]

\* The firmware's answer to the last preferred-hart write of the log.
LastWriteAnswer(log) ==
    LET W == {i \in 1 .. Len(log) :
                log[i].f = "ATTR_WRITE" /\ log[i].attr = "PREFERRED_HART"}
    IN  IF W = {} THEN SBI_SUCCESS
        ELSE log[CHOOSE i \in W : \A j \in W : j <= i].err

\* C8: when the preferred-hart write of sse_event_set_target_cpu fails with
\* an error that is neither retried nor the invalid-state answer, the call
\* returns a non-zero error and the event's recorded cpu is unchanged.
C8_WriteFailureReturned ==
    [][\A evt \in GlobalIds, cpu \in CPUs :
        (SetTargetCpuCalled(evt, cpu) /\ LastWriteAnswer(calls') = SBI_ERR_DENIED) =>
            /\ last'.ret # 0
            /\ objs'[evt].cpu = objs[evt].cpu]_vars

\* C9: when sse_event_unregister returns for an event that was registered
\* and not enabled, the event is not in the list, its storage is freed and
\* no online CPU holds a firmware registration of the id, so that the id
\* can be registered again.
C9_RoundTrip ==
    [][\A t \in Threads :
        (pc[t] = "unreg_del" /\ last'.op = "unregister" /\ ~objs[cur[t].evt].is_enabled) =>
            /\ ~InList(cur[t].evt)'
            /\ mem'[cur[t].evt] = {}
            /\ \A i \in OnlineInstances(cur[t].evt) :
                  fwState'[cur[t].evt][i] = "UNUSED"]_vars

\* C10: when sse_event_unregister returns, the event is not in the events
\* list and the event and its storage are freed, whatever the firmware
\* answered to the unregister calls.
C10_UnregisterRemoves ==
    last.op = "unregister" =>
        /\ ~InList(last.evt)
        /\ mem[last.evt] = {}
        /\ ~objs[last.evt].alive

\* An unregistration has returned during which the firmware refused an
\* unregister call.
C10_Witness ==
    /\ last.op = "unregister"
    /\ \E i \in Instances(last.evt) : Refused(calls, "UNREGISTER", last.evt, i)
    /\ ~InList(last.evt)

\* The log holds, for evt, exactly one call of func on every instance of
\* insts and no other call.
OneCallEach(log, func, evt, insts) ==
    /\ Len(log) = Cardinality(insts)
    /\ \A k \in 1 .. Len(log) :
          log[k].f = func /\ log[k].evt = evt /\ log[k].inst \in insts
    /\ \A j, k \in 1 .. Len(log) : log[j].inst = log[k].inst => j = k

\* C11: sse_event_disable makes one firmware disable call for a global
\* event, or one on every online CPU for a local event, and nothing else;
\* when it returns the enabled flag is false whatever the firmware answered,
\* the event is still in the events list with its storage, and the firmware
\* holds a registration exactly where it held one before.
C11_DisableBestEffort ==
    [][\A evt \in EvtIds :
        (last'.op = "disable" /\ last'.evt = evt) =>
            /\ OneCallEach(calls', "DISABLE", evt, OnlineInstances(evt))
            /\ ~objs'[evt].is_enabled
            /\ objs'[evt].alive
            /\ objs'[evt].handler = objs[evt].handler
            /\ events' = events
            /\ InList(evt)
            /\ mem' = mem
            /\ \A i \in Instances(evt) :
                  (fwState'[evt][i] = "UNUSED") = (fwState[evt][i] = "UNUSED")]_vars

\* A disable of an enabled event has returned during which the firmware
\* refused a disable call it could have served.
C11_Witness ==
    /\ last.op = "disable"
    /\ \E k \in 1 .. Len(calls) : calls[k].err = SBI_ERR_FAILURE
    /\ \E i \in Instances(last.evt) : fwState[last.evt][i] = "ENABLED"
    /\ ~objs[last.evt].is_enabled
    /\ InList(last.evt)

\* The number of calls of func for evt on instance inst in the log.
Count(log, func, evt, inst) ==
    Cardinality({k \in 1 .. Len(log) :
                    log[k].f = func /\ log[k].evt = evt /\ log[k].inst = inst})

\* The step is the hotplug callback sse_cpu_online on cpu.
CpuOnlineCalled(cpu) == last'.op = "cpu_online" /\ last'.arg = cpu

\* Every register or enable call of the log is for a local event of the
\* list, on cpu, and a register call comes before an enable call.
OnlineCallsWellFormed(log, cpu) ==
    /\ \A k \in 1 .. Len(log) :
          log[k].f \in {"REGISTER", "ENABLE"} =>
              /\ ~sse_event_is_global(log[k].evt)
              /\ InList(log[k].evt)
              /\ log[k].inst = cpu
    /\ \A j, k \in 1 .. Len(log) :
          (log[j].f = "REGISTER" /\ log[k].f = "ENABLE" /\ log[j].evt = log[k].evt) => j < k

\* C12: when a CPU comes online, for every local event of the events list
\* the priority is written on the new CPU and, unless the firmware refused
\* that write, exactly one register call is made there; it is followed by
\* one enable call there if and only if the event's enabled flag is true;
\* no register or enable call is made for a global event or on another CPU.
C12_CpuOnlineRegisters ==
    [][\A cpu \in CPUs :
        CpuOnlineCalled(cpu) =>
            /\ OnlineCallsWellFormed(calls', cpu)
            /\ \A evt \in EvtIds :
                  (InList(evt) /\ ~sse_event_is_global(evt)) =>
                      /\ Count(calls', "ATTR_WRITE", evt, cpu) = 1
                      /\ Count(calls', "REGISTER", evt, cpu) =
                            (IF \E k \in 1 .. Len(calls') :
                                    /\ calls'[k].f = "ATTR_WRITE"
                                    /\ calls'[k].err \notin {SBI_SUCCESS, SBI_ERR_INVALID_STATE}
                             THEN 0 ELSE 1)
                      /\ Count(calls', "ENABLE", evt, cpu) =
                            (IF objs[evt].is_enabled THEN 1 ELSE 0)]_vars

\* A CPU has come online with an enabled local event in the list: the
\* event has been registered and enabled on it.
C12_Witness ==
    /\ last.op = "cpu_online"
    /\ \E evt \in EvtIds :
          /\ InList(evt) /\ ~sse_event_is_global(evt) /\ objs[evt].is_enabled
          /\ Served(calls, "REGISTER", evt, last.arg)
          /\ Served(calls, "ENABLE", evt, last.arg)
          /\ fwState[evt][last.arg] = "ENABLED"

\* C12 as stated: when a CPU comes online exactly one register call is made
\* on it for every local event of the list, followed by an enable call if
\* and only if the enabled flag is true, and none for a global event.
C12_AsStated ==
    [][\A cpu \in CPUs :
        CpuOnlineCalled(cpu) =>
            /\ OnlineCallsWellFormed(calls', cpu)
            /\ \A evt \in EvtIds :
                  (InList(evt) /\ ~sse_event_is_global(evt)) =>
                      /\ Count(calls', "REGISTER", evt, cpu) = 1
                      /\ Count(calls', "ENABLE", evt, cpu) =
                            (IF objs[evt].is_enabled THEN 1 ELSE 0)]_vars

\* The step is the hotplug callback sse_cpu_teardown on cpu.
CpuTeardownCalled(cpu) == last'.op = "cpu_teardown" /\ last'.arg = cpu

\* evt is an enabled global event of the list whose recorded target is cpu.
EnabledGlobalOn(evt, cpu) ==
    /\ sse_event_is_global(evt)
    /\ InList(evt)
    /\ objs[evt].is_enabled
    /\ objs[evt].cpu = cpu

\* The calls of the log for evt are one disable call, then the
\* preferred-hart writes, then one enable call, and no unregister call.
MigrationCalls(log, evt) ==
    /\ Count(log, "UNREGISTER", evt, 0) = 0
    /\ Count(log, "DISABLE", evt, 0) = 1
    /\ Count(log, "ENABLE", evt, 0) = 1
    /\ Count(log, "ATTR_WRITE", evt, 0) >= 1
    /\ \A k \in 1 .. Len(log) :
          (log[k].f = "ATTR_WRITE" /\ log[k].evt = evt) => log[k].attr = "PREFERRED_HART"
    /\ \A j, k \in 1 .. Len(log) :
          /\ (log[j].evt = evt /\ log[k].evt = evt /\ log[j].f = "DISABLE"
                /\ log[k].f \in {"ATTR_WRITE", "ENABLE"}) => j < k
          /\ (log[j].evt = evt /\ log[k].evt = evt /\ log[j].f = "ATTR_WRITE"
                /\ log[k].f = "ENABLE") => j < k

\* C13: when the CPU that is the recorded target of an enabled global
\* event of the list goes offline, the teardown makes no unregister call
\* for it but a disable call, the preferred-hart writes and an enable call;
\* afterwards the event is in the list with its flag true and its firmware
\* registration as before, it is firmware-enabled unless the firmware
\* refused the enable call, and its recorded target is an online CPU other
\* than the departing one if the last write was answered with success or
\* invalid state, and the departing CPU otherwise.
C13_TeardownMigrates ==
    [][\A cpu \in CPUs, evt \in GlobalIds :
        (CpuTeardownCalled(cpu) /\ EnabledGlobalOn(evt, cpu)) =>
            /\ MigrationCalls(calls', evt)
            /\ InList(evt)' /\ objs'[evt].is_enabled
            /\ (fwState'[evt][0] = "UNUSED") = (fwState[evt][0] = "UNUSED")
            /\ fwState'[evt][0] = "ENABLED" \/ Refused(calls', "ENABLE", evt, 0)
            /\ IF LastWriteAnswer(calls') \in {SBI_SUCCESS, SBI_ERR_INVALID_STATE}
               THEN objs'[evt].cpu \in online' \ {cpu}
               ELSE objs'[evt].cpu = cpu]_vars

\* A CPU has gone offline and the enabled global event that targeted it
\* has been migrated: disabled, written, enabled again, and recorded on an
\* online CPU whose hart the firmware prefers.
C13_Witness ==
    /\ last.op = "cpu_teardown"
    /\ \E evt \in GlobalIds :
          /\ InList(evt) /\ objs[evt].is_enabled
          /\ Served(calls, "DISABLE", evt, 0)
          /\ Served(calls, "ATTR_WRITE", evt, 0)
          /\ Served(calls, "ENABLE", evt, 0)
          /\ fwState[evt][0] = "ENABLED"
          /\ objs[evt].cpu \in online \ {last.arg}
          /\ fwHart[evt] = cpuid_to_hartid_map(objs[evt].cpu)

\* C13 as stated: after the teardown of the CPU an enabled global event
\* targets, the event is registered, firmware-enabled and logically
\* enabled, and its recorded target is an online CPU other than the
\* departing one.
C13_AsStated ==
    [][\A cpu \in CPUs, evt \in GlobalIds :
        (CpuTeardownCalled(cpu) /\ EnabledGlobalOn(evt, cpu) /\ fwState[evt][0] = "ENABLED") =>
            /\ MigrationCalls(calls', evt)
            /\ InList(evt)' /\ objs'[evt].is_enabled
            /\ fwState'[evt][0] = "ENABLED"
            /\ objs'[evt].cpu \in online' \ {cpu}]_vars

\* C13, last sentence: no registered global event of the list has a CPU
\* that is offline as its recorded target.
C13_NoEventOnDepartedCpu ==
    \A evt \in GlobalIds :
        (InList(evt) /\ fwState[evt][0] # "UNUSED") => objs[evt].cpu \in online

\* C14: when a CPU goes offline, for every local event of the events list
\* the teardown makes on the departing CPU one disable call if and only if
\* the event's enabled flag is true, and then one unregister call, and no
\* call for the event on another CPU; the flag and the list are unchanged;
\* for a global event that targets another CPU no call is made, and its
\* recorded cpu and the firmware's state of it are unchanged.
C14_TeardownLocal ==
    [][\A cpu \in CPUs :
        CpuTeardownCalled(cpu) =>
            /\ events' = events
            /\ \A evt \in EvtIds : objs'[evt].is_enabled = objs[evt].is_enabled
            /\ \A evt \in EvtIds :
                  (InList(evt) /\ ~sse_event_is_global(evt)) =>
                      /\ Count(calls', "DISABLE", evt, cpu) =
                            (IF objs[evt].is_enabled THEN 1 ELSE 0)
                      /\ Count(calls', "UNREGISTER", evt, cpu) = 1
                      /\ \A j, k \in 1 .. Len(calls') :
                            (calls'[j].f = "DISABLE" /\ calls'[k].f = "UNREGISTER"
                                /\ calls'[j].evt = evt /\ calls'[k].evt = evt) => j < k
                      /\ \A k \in 1 .. Len(calls') :
                            calls'[k].f \in {"DISABLE", "UNREGISTER", "ENABLE", "REGISTER"} =>
                                calls'[k].evt = evt /\ calls'[k].inst = cpu
            /\ \A evt \in GlobalIds :
                  (InList(evt) /\ objs[evt].cpu # cpu) =>
                      /\ \A k \in 1 .. Len(calls') : calls'[k].evt # evt
                      /\ objs'[evt] = objs[evt]
                      /\ fwState'[evt] = fwState[evt]
                      /\ fwHart'[evt] = fwHart[evt]]_vars

\* A CPU has gone offline with an enabled local event in the list: the
\* event has been disabled and unregistered on it and is still in the
\* list with its flag true.
C14_Witness ==
    /\ last.op = "cpu_teardown"
    /\ \E evt \in EvtIds :
          /\ ~sse_event_is_global(evt) /\ InList(evt) /\ objs[evt].is_enabled
          /\ Served(calls, "DISABLE", evt, last.arg)
          /\ Served(calls, "UNREGISTER", evt, last.arg)
          /\ fwState[evt][last.arg] = "UNUSED"

\* The step is the reboot notifier.
RebootCalled == last'.op = "reboot"

C15_ResetCalls ==
    [][RebootCalled =>
        /\ \A evt \in EvtIds : \A i \in Instances(evt) :
              /\ Count(calls', "DISABLE", evt, i) =
                    (IF InList(evt) /\ i \in OnlineInstances(evt) THEN 1 ELSE 0)
              /\ Count(calls', "UNREGISTER", evt, i) =
                    (IF InList(evt) /\ i \in OnlineInstances(evt) THEN 1 ELSE 0)
        /\ \A k \in 1 .. Len(calls') : calls'[k].f \in {"DISABLE", "UNREGISTER"}
        /\ \A j, k \in 1 .. Len(calls') :
              (calls'[j].f = "DISABLE" /\ calls'[k].f = "UNREGISTER"
                  /\ calls'[j].evt = calls'[k].evt /\ calls'[j].inst = calls'[k].inst) => j < k
        /\ \A evt \in EvtIds : \A i \in OnlineInstances(evt) :
              InList(evt) => fwState'[evt][i] = "UNUSED"
        /\ UNCHANGED <<events, objs, mem>>]_vars

\* The step is the power-management notifier with this action.
PmCalled(action) == last'.op = "pm" /\ last'.arg = action

\* C16: the power-management notifier makes exactly one mask call on
\* entry, exactly one unmask call on exit and on a failed entry, and no
\* firmware call for another action; the events list, the enabled flags,
\* the recorded cpus and the firmware's state of every event are unchanged.
C16_PmNotifier ==
    [][\A action \in PmActions :
        PmCalled(action) =>
            /\ Len(calls') = (IF action \in {CPU_PM_ENTER, CPU_PM_EXIT, CPU_PM_ENTER_FAILED}
                              THEN 1 ELSE 0)
            /\ action = CPU_PM_ENTER => calls'[1].f = "HART_MASK"
            /\ action \in {CPU_PM_EXIT, CPU_PM_ENTER_FAILED} => calls'[1].f = "HART_UNMASK"
            /\ UNCHANGED <<events, objs, mem, fwState, fwHart, online>>]_vars

\* The notifier has run for an entry while an event is registered and
\* enabled: one mask call was made.
C16_Witness ==
    /\ last.op = "pm"
    /\ last.arg = CPU_PM_ENTER
    /\ Len(calls) = 1
    /\ calls[1].f = "HART_MASK"
    /\ \E evt \in EvtIds : InList(evt) /\ objs[evt].is_enabled

\* The step is a delivery of evt on cpu.
Delivered(evt, cpu) == last'.op = "do_sse" /\ last'.evt = evt /\ last'.arg = cpu

\* C17: a delivery makes, in this order, one firmware read of the
\* interrupted a6/a7 into the storage of the event's instance, the copy of
\* that storage to the trap frame, one call of the registered handler with
\* the event id, the registered argument and the trap frame that holds the
\* copied registers, and the setting of the software-interrupt pending
\* bit; the bit is set whatever the handler returned.
C17_DispatchOrder ==
    [][\A evt \in EvtIds, cpu \in CPUs :
        Delivered(evt, cpu) =>
            LET st == dsp'.steps
                inst == InstOf(evt, cpu)
            IN  /\ Len(st) = 4
                /\ st[1].s = "read" /\ st[1].evt = evt /\ st[1].inst = inst
                /\ st[2].s = "merge" /\ st[2].evt = evt /\ st[2].inst = inst
                /\ st[3].s = "handler"
                /\ st[3].h = objs[evt].handler
                /\ st[3].evt = evt
                /\ st[3].arg = objs[evt].handler_arg
                /\ st[3].regs = dsp'.interrupted[evt][inst]
                /\ st[3].ret = last'.ret
                /\ st[4].s = "sip"
                /\ dsp'.sip
                /\ dsp'.regs = dsp'.interrupted[evt][inst]
                /\ Count(calls', "ATTR_READ", evt, inst) = 1 /\ Len(calls') = 1
                /\ st[1].err = SBI_SUCCESS => dsp'.interrupted[evt][inst] \in RegPairs]_vars

\* An event has been delivered to a handler that returned an error: the
\* handler saw the registers the firmware held, and the pending bit is set.
C17_Witness ==
    /\ last.op = "do_sse"
    /\ last.ret # 0
    /\ Len(dsp.steps) = 4
    /\ dsp.steps[3].s = "handler"
    /\ dsp.steps[3].regs \in RegPairs
    /\ dsp.steps[3].arg = ArgOf(dsp.steps[3].h)
    /\ dsp.sip

\* C18: an event that is registered has a stack for every one of its
\* storage instances.
C18_StacksAllocated ==
    \A evt \in EvtIds :
        (objs[evt].alive /\ ~sse_event_is_global(evt)) => stacks[evt] = Instances(evt)

\* The step is an install of event on cpu.
InstallCalled(cpu, event) ==
    last'.op = "install" /\ last'.evt = event /\ last'.arg = cpu

\* C19: every slot of a CPU's table holds one perf event or none, and an
\* install for which the firmware answered an index below the capacity
\* whose slot is occupied returns -EBUSY and leaves the table of that CPU,
\* the occupant included, as it was.
C19_SlotBusy ==
    /\ [](\A c \in CPUs, i \in Slots : pcpu_hw_bp_events[c][i] \in PerfEvents \cup {NULL})
    /\ [][\A cpu \in CPUs, event \in PerfEvents :
            (/\ InstallCalled(cpu, event)
             /\ calls'[1].err = SBI_SUCCESS
             /\ calls'[1].val < dbtr_total_num
             /\ pcpu_hw_bp_events[cpu][calls'[1].val] # NULL) =>
                /\ last'.ret = -EBUSY
                /\ pcpu_hw_bp_events' = pcpu_hw_bp_events]_vars

\* An install was answered with the index of an occupied slot and
\* returned -EBUSY.
C19_Witness ==
    /\ last.op = "install"
    /\ last.ret = -EBUSY
    /\ calls[1].err = SBI_SUCCESS
    /\ pcpu_hw_bp_events[last.arg][calls[1].val] \in PerfEvents \ {last.evt}

\* Every slot below the capacity of the table of cpu is occupied.
TableFull(cpu) ==
    \A i \in 0 .. (dbtr_total_num - 1) : pcpu_hw_bp_events[cpu][i] # NULL

\* C20: an install returns an error when the firmware reported one, when
\* the index it answered is at or beyond the capacity, when the slot of
\* that index is occupied, and so whenever every slot below the capacity is
\* occupied; an install that returns an error changes no slot of any CPU.
C20_FailedInstallNoChange ==
    [][\A cpu \in CPUs, event \in PerfEvents :
        InstallCalled(cpu, event) =>
            /\ (\/ calls'[1].err # SBI_SUCCESS
                \/ calls'[1].val >= dbtr_total_num
                \/ pcpu_hw_bp_events[cpu][calls'[1].val] # NULL
                \/ TableFull(cpu)) => last'.ret # 0
            /\ last'.ret # 0 => pcpu_hw_bp_events' = pcpu_hw_bp_events
            /\ last'.ret = 0 =>
                  pcpu_hw_bp_events' =
                      [pcpu_hw_bp_events EXCEPT ![cpu][calls'[1].val] = event]]_vars

\* An install on a CPU whose slots are all occupied has failed, and the
\* slots still hold their events.
C20_Witness ==
    /\ last.op = "install"
    /\ last.ret # 0
    /\ TableFull(last.arg)
    /\ ~Installed(last.evt)

\* The slots of the table of cpu that hold event.
SlotsOf(cpu, event) == {i \in Slots : pcpu_hw_bp_events[cpu][i] = event}

\* The firmware function an operation of the trigger manager calls.
HwFuncOf(op) ==
    CASE op = "uninstall" -> "TRIG_UNINSTALL"
      [] op = "hw_enable" -> "TRIG_ENABLE"
      [] op = "hw_disable" -> "TRIG_DISABLE"

\* C21: an uninstall, enable or disable for an event that is in no slot of
\* the CPU's table makes no firmware call and changes no slot; for an event
\* that is in a slot it makes exactly one firmware call, of its function
\* and with the index of that slot; enable and disable change no slot, and
\* uninstall clears that slot and no other.
C21_AbsentNoCall ==
    [][\A cpu \in CPUs, event \in PerfEvents, op \in {"uninstall", "hw_enable", "hw_disable"} :
        (last'.op = op /\ last'.evt = event /\ last'.arg = cpu) =>
            IF SlotsOf(cpu, event) = {}
            THEN calls' = <<>> /\ pcpu_hw_bp_events' = pcpu_hw_bp_events
            ELSE /\ Len(calls') = 1
                 /\ calls'[1].f = HwFuncOf(op)
                 /\ calls'[1].val \in SlotsOf(cpu, event)
                 /\ pcpu_hw_bp_events' =
                       IF op = "uninstall"
                       THEN [pcpu_hw_bp_events EXCEPT ![cpu][calls'[1].val] = NULL]
                       ELSE pcpu_hw_bp_events]_vars

\* An uninstall has cleared the second slot of a table whose first slot
\* still holds another event.
C21_Witness ==
    /\ last.op = "uninstall"
    /\ Len(calls) = 1
    /\ calls[1].val = 1
    /\ pcpu_hw_bp_events[last.arg][1] = NULL
    /\ pcpu_hw_bp_events[last.arg][0] \in PerfEvents \ {last.evt}

\* C22: with a firmware that answers an install with a free trigger index,
\* an install on a CPU that has a free slot below the capacity succeeds and
\* occupies a slot that was free, so that as many installs as the capacity
\* succeed with distinct indices; an install on a CPU whose slots are all
\* occupied fails; and an uninstall leaves the slot free in the table and
\* in the firmware, for a later install to take.
C22_SlotReuse ==
    [][\A event \in ScenarioEvents :
        /\ InstallCalled(0, event) =>
              IF TableFull(0)
              THEN last'.ret # 0 /\ pcpu_hw_bp_events' = pcpu_hw_bp_events
              ELSE /\ last'.ret = 0
                   /\ calls'[1].val \in 0 .. (dbtr_total_num - 1)
                   /\ pcpu_hw_bp_events[0][calls'[1].val] = NULL
                   /\ pcpu_hw_bp_events' =
                         [pcpu_hw_bp_events EXCEPT ![0][calls'[1].val] = event]
        /\ (last'.op = "uninstall" /\ last'.evt = event /\ SlotsOf(0, event) # {}) =>
              \A i \in SlotsOf(0, event) :
                  /\ pcpu_hw_bp_events'[0][i] = NULL
                  /\ i \notin fwTrig'[0]
                  /\ i \in InstallIndices(0)']_vars

\* The table is full: the last perf event has been installed in slot 2,
\* the only slot that was free, and perf event 3 is not installed.
C22_Witness ==
    /\ last.op = "install"
    /\ last.ret = 0
    /\ last.evt = NScenarioEvents
    /\ calls[1].val = 2
    /\ TableFull(0)
    /\ ~Installed(3)


\* The number of triggers of a type the firmware reported in the log: the
\* value of the answered query for that type, and 0 if there is none.
ReportedCount(log, type) ==
    LET answered == {k \in 1 .. Len(log) :
                        /\ log[k].f = "NUM_TRIGGERS"
                        /\ log[k].inst = type
                        /\ log[k].err = SBI_SUCCESS}
    IN  IF answered = {} THEN 0 ELSE log[CHOOSE k \in answered : TRUE].val

\* C23: discovery runs at most once.  The first hw_breakpoint_slots call
\* queries the firmware and records the count the firmware reported for
\* type 6 with that type if it is not zero, otherwise the count it reported
\* for type 2 with that type if it is not zero, otherwise zero and no type,
\* and it asks for type 2 only after it has asked for type 6;
\* every later call makes no firmware call and returns the recorded number;
\* and once discovery has run no step changes what it recorded.
C23_DiscoveryOnce ==
    [][/\ dbtr_init = 1 => UNCHANGED dbtr
       /\ (last'.op = "slots" /\ dbtr_init = 1) =>
              calls' = <<>> /\ last'.ret = dbtr_total_num
       /\ (last'.op = "slots" /\ dbtr_init = 0) =>
              LET n6 == ReportedCount(calls', RV_DBTR_TRIG_MCONTROL6)
                  n2 == ReportedCount(calls', RV_DBTR_TRIG_MCONTROL)
              IN  /\ calls' # <<>>
                  /\ \A k \in 1 .. Len(calls') :
                         (calls'[k].f = "NUM_TRIGGERS"
                             /\ calls'[k].inst = RV_DBTR_TRIG_MCONTROL) =>
                         \E j \in 1 .. (k - 1) :
                             /\ calls'[j].f = "NUM_TRIGGERS"
                             /\ calls'[j].inst = RV_DBTR_TRIG_MCONTROL6
                  /\ dbtr_init' = 1
                  /\ last'.ret = dbtr_total_num'
                  /\ dbtr_total_num' = IF n6 # 0 THEN n6 ELSE n2
                  /\ dbtr_type' = IF n6 # 0 THEN RV_DBTR_TRIG_MCONTROL6
                                  ELSE IF n2 # 0 THEN RV_DBTR_TRIG_MCONTROL
                                  ELSE RV_DBTR_TRIG_NONE]_vars

\* A hw_breakpoint_slots call has returned, without a firmware call, the
\* number of type 2 triggers that a discovery recorded.
C23_Witness ==
    /\ last.op = "slots"
    /\ calls = <<>>
    /\ dbtr_init = 1
    /\ dbtr_type = RV_DBTR_TRIG_MCONTROL
    /\ last.ret = MaxCapacity
    /\ dbtr_total_num = MaxCapacity


\* C24: once discovery has recorded zero triggers, every install,
\* uninstall, enable and disable makes no firmware call, changes no slot
\* and returns zero.
C24_ZeroCapacityNoOp ==
    [][(/\ dbtr_init = 1
        /\ dbtr_total_num = 0
        /\ last'.op \in {"install", "uninstall", "hw_enable", "hw_disable"}) =>
           /\ calls' = <<>>
           /\ pcpu_hw_bp_events' = pcpu_hw_bp_events
           /\ last'.ret = 0]_vars


\* The slots of a CPU's table whose perf event matches a trap: a breakpoint
\* of the trap's epc, or a watchpoint of its stval.
MatchingSlots(cpu, epc, stval) ==
    {i \in 0 .. (dbtr_total_num - 1) :
        /\ pcpu_hw_bp_events[cpu][i] # NULL
        /\ LET bp == counter_arch_bp(pcpu_hw_bp_events[cpu][i])
           IN  \/ bp.type = RV_DBTR_BP /\ bp.address = epc
               \/ bp.type = RV_DBTR_WP /\ bp.address = stval}

\* C25: a debug notification delivers the perf event of every matching
\* slot of the CPU once and no other event, and returns NOTIFY_STOP if and
\* only if a slot matched; any other notification delivers nothing and
\* returns NOTIFY_DONE; neither changes a slot or calls the firmware.
C25_TrapDelivery ==
    [][\A cpu \in CPUs :
        (last'.op = "notify" /\ last'.arg = cpu) =>
            LET m == MatchingSlots(cpu, die_args'.epc, die_args'.stval)
            IN  /\ calls' = <<>>
                /\ pcpu_hw_bp_events' = pcpu_hw_bp_events
                /\ IF die_args'.val = "DIE_DEBUG"
                   THEN /\ Len(bp_hits') = Cardinality(m)
                        /\ {bp_hits'[k] : k \in 1 .. Len(bp_hits')} =
                              {pcpu_hw_bp_events[cpu][i] : i \in m}
                        /\ last'.ret = IF m = {} THEN NOTIFY_DONE ELSE NOTIFY_STOP
                   ELSE bp_hits' = <<>> /\ last'.ret = NOTIFY_DONE]_vars

\* A debug trap has delivered the breakpoint and the watchpoint of its two
\* matching slots and not the event of a third slot.
C25_Witness ==
    /\ last.op = "notify"
    /\ die_args.val = "DIE_DEBUG"
    /\ Len(bp_hits) = 2
    /\ last.ret = NOTIFY_STOP
    /\ \E i \in 0 .. (dbtr_total_num - 1) :
          /\ pcpu_hw_bp_events[last.arg][i] # NULL
          /\ i \notin MatchingSlots(last.arg, die_args.epc, die_args.stval)


\* The load, store and execute bits of the control word of a trigger type.
LoadBit(type) ==
    IF type = RV_DBTR_TRIG_MCONTROL THEN RV_DBTR_MC_LOAD_BIT ELSE RV_DBTR_MC6_LOAD_BIT

StoreBit(type) ==
    IF type = RV_DBTR_TRIG_MCONTROL THEN RV_DBTR_MC_STORE_BIT ELSE RV_DBTR_MC6_STORE_BIT

ExecBit(type) ==
    IF type = RV_DBTR_TRIG_MCONTROL THEN RV_DBTR_MC_EXEC_BIT ELSE RV_DBTR_MC6_EXEC_BIT

\* The access bits a request type asks for.
RequestedBits(bp_type, type) ==
    CASE bp_type = HW_BREAKPOINT_X -> {ExecBit(type)}
      [] bp_type = HW_BREAKPOINT_R -> {LoadBit(type)}
      [] bp_type = HW_BREAKPOINT_W -> {StoreBit(type)}
      [] bp_type = HW_BREAKPOINT_RW -> {LoadBit(type), StoreBit(type)}

\* C26: a parse on a zero-initialised config returns -EOPNOTSUPP when no
\* trigger type was discovered; otherwise, for a type among execute, read,
\* write and read-write and a length among 1, 2, 4 and 8, it returns 0 with
\* the config type breakpoint for execute and watchpoint otherwise, the
\* requested length in bytes, the requested address, and a control word
\* whose load, store and execute bits are exactly the requested ones; and
\* for any other type or length it returns -EINVAL.
C26_ParseBreakpoint ==
    [][last'.op = "parse" =>
        LET attr == bp_attr'
        IN  IF dbtr_type \notin {RV_DBTR_TRIG_MCONTROL, RV_DBTR_TRIG_MCONTROL6}
            THEN last'.ret = -EOPNOTSUPP
            ELSE IF /\ attr.bp_type \in {HW_BREAKPOINT_X, HW_BREAKPOINT_R,
                                         HW_BREAKPOINT_W, HW_BREAKPOINT_RW}
                    /\ attr.bp_len \in {1, 2, 4, 8}
            THEN /\ last'.ret = 0
                 /\ hw'.type = IF attr.bp_type = HW_BREAKPOINT_X
                               THEN RV_DBTR_BP ELSE RV_DBTR_WP
                 /\ hw'.len = attr.bp_len
                 /\ hw'.address = attr.bp_addr
                 /\ hw'.tdata1 \cap {LoadBit(dbtr_type), StoreBit(dbtr_type),
                                     ExecBit(dbtr_type)}
                       = RequestedBits(attr.bp_type, dbtr_type)
            ELSE last'.ret = -EINVAL]_vars

\* A parse has filled in a read-write watchpoint of 8 bytes in the legacy
\* format.
C26_Witness ==
    /\ last.op = "parse"
    /\ last.ret = 0
    /\ dbtr_type = RV_DBTR_TRIG_MCONTROL
    /\ bp_attr.bp_type = HW_BREAKPOINT_RW
    /\ bp_attr.bp_len = HW_BREAKPOINT_LEN_8
    /\ hw.type = RV_DBTR_WP
    /\ hw.len = 8
    /\ RV_DBTR_MC_SIZEHI_BIT \in hw.tdata1


\* The preferred-hart writes of a call log, by their position.
HartWrites(log) ==
    {i \in 1 .. Len(log) : log[i].f = "ATTR_WRITE" /\ log[i].attr = "PREFERRED_HART"}

\* C27: in sse_event_set_target_cpu a preferred-hart write is followed by
\* another one exactly when the firmware answered it with the invalid-state
\* error, and a write answered with that error does not change the recorded
\* cpu of the event.
C27_RetryWhileInvalidState ==
    [][\A evt \in GlobalIds, cpu \in CPUs :
        SetTargetCpuCalled(evt, cpu) =>
            /\ \A i \in HartWrites(calls') :
                  (calls'[i].err = SBI_ERR_INVALID_STATE)
                      <=> (\E j \in HartWrites(calls') : j > i)
            /\ LastWriteAnswer(calls') = SBI_ERR_INVALID_STATE =>
                  objs'[evt].cpu = objs[evt].cpu]_vars


\* Whether the firmware holds the global event enabled just before call i
\* of the log: by the latest served enable or disable call before it, or
\* by the state the operation started in.
FwEnabledBefore(log, i, evt) ==
    LET T == {k \in 1 .. (i - 1) :
                /\ log[k].evt = evt
                /\ log[k].f \in {"ENABLE", "DISABLE"}
                /\ log[k].err = SBI_SUCCESS}
    IN  IF T = {}
        THEN fwState[evt][0] = "ENABLED"
        ELSE log[CHOOSE k \in T : \A j \in T : j <= k].f = "ENABLE"

\* The preferred-hart writes for evt in a call log.
HartWritesOf(log, evt) == {i \in HartWrites(log) : log[i].evt = evt}

\* The step is a target change or a CPU teardown.
RetargetCalled == last'.op \in {"set_target_cpu", "cpu_teardown"}

\* C28 as stated: no preferred-hart write of sse_event_set_target_cpu or of
\* the CPU teardown is issued while the firmware holds the event enabled.
C28_AsStated ==
    [][RetargetCalled =>
        \A evt \in GlobalIds : \A i \in HartWritesOf(calls', evt) :
            ~FwEnabledBefore(calls', i, evt)]_vars

\* C28: every preferred-hart write of sse_event_set_target_cpu and of the
\* CPU teardown for an event whose enabled flag is set comes after a disable
\* call and before an enable call for that event in the same operation, and
\* for an event whose flag is clear there is neither call; and a write is
\* issued while the firmware holds the event enabled only if the firmware
\* refused that disable call or held the event enabled with its flag clear.
C28_WriteBracketed ==
    [][RetargetCalled =>
        \A evt \in GlobalIds : \A i \in HartWritesOf(calls', evt) :
            LET dis == {k \in 1 .. (i - 1) :
                           calls'[k].evt = evt /\ calls'[k].f = "DISABLE"}
                en == {k \in (i + 1) .. Len(calls') :
                           calls'[k].evt = evt /\ calls'[k].f = "ENABLE"}
            IN  /\ objs[evt].is_enabled => dis # {} /\ en # {}
                /\ ~objs[evt].is_enabled => dis = {} /\ en = {}
                /\ FwEnabledBefore(calls', i, evt) =>
                      \/ \E k \in dis : calls'[k].err # SBI_SUCCESS
                      \/ ~objs[evt].is_enabled]_vars

\* A target change of an enabled event whose disable call the firmware
\* served has written the preferred hart between that call and the enable
\* call.
C28_Witness ==
    /\ last.op = "set_target_cpu"
    /\ Len(calls) = 3
    /\ calls[1].f = "DISABLE" /\ calls[1].err = SBI_SUCCESS
    /\ calls[2].f = "ATTR_WRITE" /\ calls[2].err = SBI_SUCCESS
    /\ calls[3].f = "ENABLE"
    /\ fwHart[last.evt] = cpuid_to_hartid_map(last.arg)


\* C29: the enabled flag of an event changes only in a step of a thread
\* that holds sse_mutex: in an enable or a disable, which take the mutex
\* when it is free, or when the thread that is in its unregistration with
\* the mutex held frees the event.
C29_FlagUnderMutex ==
    [][\A evt \in EvtIds :
        objs'[evt].is_enabled # objs[evt].is_enabled =>
            \/ sse_mutex = NoThread /\ last'.op \in {"enable", "disable"}
            \/ /\ sse_mutex # NoThread
               /\ pc[sse_mutex] = "unreg_del"
               /\ cur[sse_mutex].evt = evt
               /\ last'.op = "unregister"]_vars

\* An enable has set the flag while no other thread was in an operation,
\* on a system that has one CPU offline.
C29_Witness ==
    /\ last.op = "enable"
    /\ last.ret = 0
    /\ objs[last.evt].is_enabled
    /\ sse_mutex = NoThread
    /\ online # CPUs


\* C30: whenever no operation is in progress and no firmware call has
\* failed, the firmware holds a local event of the list enabled on an
\* online CPU if and only if the enabled flag of the event is set.
C30_FlagMatchesFirmware ==
    \A evt \in EvtIds :
        (Idle /\ InList(evt) /\ ~sse_event_is_global(evt)) =>
            \A c \in online : (fwState[evt][c] = "ENABLED") <=> objs[evt].is_enabled


\* A CPU has come online while the event was enabled, and the firmware holds
\* the event enabled on every CPU.
C30_Witness ==
    /\ last.op = "cpu_online"
    /\ online = CPUs
    /\ \E evt \in EvtIds :
          /\ InList(evt)
          /\ ~sse_event_is_global(evt)
          /\ objs[evt].is_enabled
          /\ \A c \in online : fwState[evt][c] = "ENABLED"


\* C31: the call log of a CPU teardown starts with the mask call of that
\* CPU and holds no other mask or unmask call, so that every disable,
\* unregister and preferred-hart call of the teardown comes after it; the
\* call log of a CPU online ends with the unmask call of that CPU and holds
\* no other unmask or mask call, so that every register and enable call
\* for the new CPU comes before it.
C31_MaskedDuringHotplug ==
    [][/\ last'.op = "cpu_teardown" =>
            /\ Len(calls') >= 1
            /\ calls'[1].f = "HART_MASK"
            /\ calls'[1].inst = last'.arg
            /\ \A k \in 2 .. Len(calls') :
                  calls'[k].f \notin {"HART_MASK", "HART_UNMASK"}
       /\ last'.op = "cpu_online" =>
            /\ Len(calls') >= 1
            /\ calls'[Len(calls')].f = "HART_UNMASK"
            /\ calls'[Len(calls')].inst = last'.arg
            /\ \A k \in 1 .. (Len(calls') - 1) :
                  calls'[k].f \notin {"HART_MASK", "HART_UNMASK"}]_vars

\* A teardown has masked the CPU and then disabled and unregistered an
\* enabled local event on it.
C31_Witness ==
    /\ last.op = "cpu_teardown"
    /\ Len(calls) = 3
    /\ calls[1].f = "HART_MASK"
    /\ calls[2].f = "DISABLE" /\ calls[2].inst = last.arg
    /\ calls[3].f = "UNREGISTER" /\ calls[3].inst = last.arg

\* C32: when sse_event_register returns a local event, the event is
\* firmware-registered on every CPU that is online at that moment, a CPU
\* that came online between the registration broadcast and list_add()
\* included.
C32_RegisteredOnEveryOnlineCpu ==
    [][\A t \in Threads :
        (/\ pc[t] = "reg_add"
         /\ last'.op = "register"
         /\ ~sse_event_is_global(cur[t].evt)) =>
            \A c \in online' : fwState'[cur[t].evt][c] # "UNUSED"]_vars

\* C33: when sse_event_unregister returns for a local event that was not
\* enabled, no online CPU holds a firmware registration of the id, a CPU
\* that came online between the unregistration broadcast and list_del()
\* included; and every firmware register call of a CPU-online callback is
\* for an event whose storage is allocated.
C33_UnregisteredOnEveryOnlineCpu ==
    [][/\ \A t \in Threads :
            (/\ pc[t] = "unreg_del"
             /\ last'.op = "unregister"
             /\ ~sse_event_is_global(cur[t].evt)
             /\ ~objs[cur[t].evt].is_enabled) =>
                \A c \in online' : fwState'[cur[t].evt][c] = "UNUSED"
       /\ last'.op = "cpu_online" =>
            \A k \in 1 .. Len(calls') :
                calls'[k].f = "REGISTER" => mem[calls'[k].evt] # {}]_vars

\* The positions of the log that hold a call of one of funcs on instance inst.
CallsOn(log, funcs, inst) ==
    {i \in 1 .. Len(log) : log[i].f \in funcs /\ log[i].inst = inst}

C35_LocksReleased ==
    /\ \A t \in Threads :
          pc[t] = "idle" => sse_mutex # t /\ t \notin cpus_readers
    /\ Idle => sse_mutex = NoThread

\* C36: a delivery finds the event object and the storage of the
\* delivering instance allocated: no handler call and no storage access is
\* made for an event that sse_event_unregister has freed.
C36_NoUseAfterFree ==
    last.op = "do_sse" =>
        /\ objs[last.evt].alive
        /\ InstOf(last.evt, last.arg) \in mem[last.evt]

\* The storage instances whose stacks sse_event_free passes to
\* sse_free_event: every instance of the event, whatever sse_init_event did
\* for it.
FreedStacks(evt) == Instances(evt)

\* C37: when sse_event_unregister frees an event, every stack it frees had
\* been allocated and was still allocated (it is freed once, and no pointer
\* that is not an allocated stack is passed to free), and no stack of the
\* event stays allocated afterwards.
C37_StacksFreedOnce ==
    [][\A t \in Threads :
        (pc[t] = "unreg_del" /\ last'.op = "unregister") =>
            /\ FreedStacks(cur[t].evt) \subseteq stacks[cur[t].evt]
            /\ stacks'[cur[t].evt] = {}]_vars

\* C38: every index at which a step reads or writes the slot table is
\* below HW_BP_NUM_MAX: the index an install was answered with, when the
\* install accepts it, and the indices an uninstall scans, which are those
\* up to the slot it finds or, when it finds none, all those below the
\* recorded capacity.
C38_IndexInTable ==
    [][/\ (/\ last'.op = "install"
           /\ calls'[1].err = SBI_SUCCESS
           /\ calls'[1].val < dbtr_total_num) => calls'[1].val \in Slots
       /\ last'.op = "uninstall" =>
            (0 .. (IF calls' = <<>> THEN dbtr_total_num - 1 ELSE calls'[1].val))
                \subseteq Slots]_vars

\* C39: on every CPU the firmware holds a trigger installed at an index if
\* and only if the slot table of the CPU holds an event at that index.
C39_TablesAgree ==
    \A c \in CPUs :
        fwTrig[c] = {i \in TableWords : pcpu_hw_bp_events[c][i] # NULL}

\* C40: arch_smp_setup_sbi_shmem returns 0 when the firmware call
\* succeeds, and otherwise -EPERM for access denied, -EINVAL for invalid
\* parameter and invalid address, -EADDRINUSE for already available, and
\* -ENXIO for firmware failure and for every other code.
C40_SetupShmemReturn ==
    last.op = "setup_shmem" =>
        last.ret = CASE calls[1].err = SBI_SUCCESS -> 0
                     [] calls[1].err = SBI_ERR_DENIED -> -EPERM
                     [] calls[1].err = SBI_ERR_INVALID_PARAM -> -EINVAL
                     [] calls[1].err = SBI_ERR_INVALID_ADDRESS -> -EINVAL
                     [] calls[1].err = SBI_ERR_ALREADY_AVAILABLE -> -EADDRINUSE
                     [] OTHER -> -ENXIO

====
